---------------------------- MODULE Spec2Model ----------------------------
(***************************************************************************)
(* Model of the schema extractor (src/extractor): the source merger        *)
(* (merger.py), the index parsers (pdf_parser.py, html_parser.py), the     *)
(* section parsers of core.py, the text parser's run over the table of     *)
(* contents (pdf_parser.py) and the command line (cli.py).                 *)
(*                                                                         *)
(* Python strings are sequences of one-character strings, so that lower(), *)
(* find(), startswith() and "in" are computed and not assumed.  A Python   *)
(* value is a record [t, v]: t = "str" with the characters in v, or        *)
(* t = "none" for None.  A dict is a function from the keys it holds.      *)
(***************************************************************************)
EXTENDS Integers, Sequences, FiniteSets, TLC

VARIABLES pc,            \* position of the run: which call is pending or finished
          prefer_html,   \* SchemaMerger.prefer_html
          pdf_data,      \* ParsedResult of the text (PDF) parser
          html_data,     \* ParsedResult of the DOM (HTML) parser
          result,        \* the dict merge() builds
          raised,        \* the exception that left merge(), "" when none
          index_lines,   \* the lines of an Indexes section of the text
          indexes,       \* what _parse_indexes returns for them
          row_data,      \* one row of a DOM index table, header name -> cell
          index_item,    \* what _normalize_row_data returns for it
          index_rows,    \* the rows of an index table given to parse_index_section
          column_rows,   \* the rows of a Columns table of the document
          column_text,   \* the lines of its text, as parse_column_section gets them
          columns,       \* what parse_column_section returns for them
          origins,       \* for each list and record of result: the input object it is, or a new one
          text_pages,    \* PdfTextParser._text_content, split at "--- Page " and at line ends
          toc_entries,   \* PdfTextParser._toc_entries
          page_drift_stats, \* PdfTextParser._page_drift_stats
          parse_returns, \* what each call of PdfTextParser.parse() returned, in call order
          parse_log,     \* what the latest parse() printed for each TOC entry
          args_prefer_pdf, \* args.prefer_pdf of cli.main
          section_name,  \* the section name given to PdfTextParser._parse_section
          definition_text, \* the definition text given to it, as its lines
          section_text,  \* what _parse_section returns for them
          soup,          \* HtmlDomParser._soup: the sibling nodes of the document, in order
          table_types,   \* what _classify_html_table returned for each table parse() gave it
          html_result,   \* what HtmlDomParser.parse() returns
          json_files,    \* the files given to load_all_json_files: what each holds
          max_workers,   \* its max_workers
          futures,       \* the state of the future of each file
          completed,     \* the finished futures as_completed has yet to yield, in completion order
          all_data,      \* all_data of load_all_json_files
          success_count, \* its success_count
          load_returns   \* what each call of load_all_json_files returned, in call order

merge_vars == <<prefer_html, pdf_data, html_data, result, raised, origins>>

index_vars == <<index_lines, indexes, row_data, index_item, index_rows>>

column_vars == <<column_rows, column_text, columns>>

text_vars == <<text_pages, toc_entries, page_drift_stats, parse_returns, parse_log>>

cli_vars == <<args_prefer_pdf>>

section_vars == <<section_name, definition_text, section_text>>

dom_vars == <<soup, table_types, html_result>>

load_vars == <<json_files, max_workers, futures, completed, all_data, success_count, load_returns>>

vars == <<pc, prefer_html, pdf_data, html_data, result, raised, index_lines, indexes, row_data, index_item, index_rows, column_rows, column_text, columns, origins, text_pages, toc_entries, page_drift_stats, parse_returns, parse_log, args_prefer_pdf, section_name, definition_text, section_text, soup, table_types, html_result, json_files, max_workers, futures, completed, all_data, success_count, load_returns>>

---------------------------------------------------------------------------
(* Bounds of the model. *)

\* most column records the two sources hold together for one table
MaxItems == 3

---------------------------------------------------------------------------
(* Python values and strings. *)

None == [t |-> "none", v |-> <<>>]

Str(s) == [t |-> "str", v |-> s]

IsNone(x) == x.t = "none"

UpperLetters == <<"A", "B", "C", "D", "E", "F", "G", "H", "I", "J", "K", "L", "M", "N", "O", "P", "Q", "R", "S", "T", "U", "V", "W", "X", "Y", "Z">>

LowerLetters == <<"a", "b", "c", "d", "e", "f", "g", "h", "i", "j", "k", "l", "m", "n", "o", "p", "q", "r", "s", "t", "u", "v", "w", "x", "y", "z">>

\* str.lower() on one character
LowerOf == [c \in {UpperLetters[i] : i \in DOMAIN UpperLetters} |->
                LowerLetters[CHOOSE i \in DOMAIN UpperLetters : UpperLetters[i] = c]]

LowerChar(c) == IF c \in DOMAIN LowerOf THEN LowerOf[c] ELSE c

\* str.lower()
Lower(s) == [i \in DOMAIN s |-> LowerChar(s[i])]

\* sub in s
Contains(s, sub) ==
    \E i \in 0..(Len(s) - Len(sub)) : SubSeq(s, i + 1, i + Len(sub)) = sub

\* s.startswith(p)
StartsWith(s, p) == Len(p) <= Len(s) /\ SubSeq(s, 1, Len(p)) = p

\* s.find(sub, start): the 0-based index of the first occurrence at or after
\* start, -1 when there is none
Find(s, sub, start) ==
    LET hits == {i \in start..(Len(s) - Len(sub)) :
                    SubSeq(s, i + 1, i + Len(sub)) = sub}
    IN IF hits = {} THEN 0 - 1 ELSE CHOOSE i \in hits : \A j \in hits : i <= j

RECURSIVE SplitOn(_, _)
\* s.split(sep) for a one-character separator
SplitOn(s, sep) ==
    LET k == Find(s, <<sep>>, 0)
    IN IF k < 0 THEN <<s>>
       ELSE <<SubSeq(s, 1, k)>> \o SplitOn(SubSeq(s, k + 2, Len(s)), sep)

---------------------------------------------------------------------------
(* merger.py: SchemaMerger *)

\* item.items() iterates a dict in insertion order; the parsers insert the
\* name first
FieldOrder == <<"name", "data_type">>

\* ItemConflicts without the two "is not None" tests
ItemConflictsOfNulls(pri_item, sec_item, table_name, item_type, id_field, primary_name, secondary_name) ==
    LET Hit(key) == /\ key \in DOMAIN sec_item
                    /\ key \in DOMAIN pri_item
                    /\ sec_item[key] # pri_item[key]
        W(key) == [kind |-> "Conflict", item_type |-> item_type,
                   item |-> sec_item[id_field].v, table |-> table_name,
                   key |-> key, pri |-> pri_item[key], sec |-> sec_item[key],
                   primary_name |-> primary_name,
                   secondary_name |-> secondary_name]
        Rec[i \in 0..Len(FieldOrder)] ==
            IF i = 0 THEN <<>>
            ELSE IF Hit(FieldOrder[i]) THEN Append(Rec[i - 1], W(FieldOrder[i]))
                 ELSE Rec[i - 1]
    IN Rec[Len(FieldOrder)]

\* for key, sec_value in sec_item.items(): the conflict warnings of one
\* matched pair, merger.py 229-241
ItemConflicts(pri_item, sec_item, table_name, item_type, id_field, primary_name, secondary_name) ==
    LET Hit(key) == /\ key \in DOMAIN sec_item
                    /\ key \in DOMAIN pri_item
                    /\ sec_item[key] # pri_item[key]
                    /\ ~IsNone(sec_item[key])
                    /\ ~IsNone(pri_item[key])
        W(key) == [kind |-> "Conflict", item_type |-> item_type,
                   item |-> sec_item[id_field].v, table |-> table_name,
                   key |-> key, pri |-> pri_item[key], sec |-> sec_item[key],
                   primary_name |-> primary_name,
                   secondary_name |-> secondary_name]
        Rec[i \in 0..Len(FieldOrder)] ==
            IF i = 0 THEN <<>>
            ELSE IF Hit(FieldOrder[i]) THEN Append(Rec[i - 1], W(FieldOrder[i]))
                 ELSE Rec[i - 1]
    IN Rec[Len(FieldOrder)]

\* the warning of merger.py 216-219
MissingIdWarning(table_name, item_type, id_field, secondary_name) ==
    [kind |-> "Warning", item_type |-> item_type, table |-> table_name,
     id_field |-> id_field, secondary_name |-> secondary_name]

\* PrimaryMapKeys without lower(): the keys as the primary source writes them
PrimaryMapKeysAsWritten(primary_items, id_field) ==
    {primary_items[i][id_field].v :
        i \in {k \in DOMAIN primary_items : id_field \in DOMAIN primary_items[k]}}

\* primary_map = {item[id_field].lower(): item ...}: a later item replaces an
\* earlier one with the same key, so the lookup yields the last one
PrimaryMapKeys(primary_items, id_field) ==
    {Lower(primary_items[i][id_field].v) :
        i \in {k \in DOMAIN primary_items : id_field \in DOMAIN primary_items[k]}}

PrimaryMapGet(primary_items, id_field, key) ==
    LET idx == {i \in DOMAIN primary_items :
                   /\ id_field \in DOMAIN primary_items[i]
                   /\ Lower(primary_items[i][id_field].v) = key}
    IN primary_items[CHOOSE i \in idx : \A j \in idx : j <= i]

\* None.lower() raises AttributeError while the map is built
PrimaryMapRaises(primary_items, id_field) ==
    \E i \in DOMAIN primary_items :
        id_field \in DOMAIN primary_items[i] /\ IsNone(primary_items[i][id_field])

\* a merge that would complete a matched primary record from the secondary
\* one: a field that is null or absent in the primary takes the secondary's
\* value (the code does not do this)
FilledFrom(pri_item, sec_item) ==
    [key \in (DOMAIN pri_item) \cup (DOMAIN sec_item) |->
        IF key \in DOMAIN pri_item /\ ~IsNone(pri_item[key]) THEN pri_item[key]
        ELSE IF key \in DOMAIN sec_item THEN sec_item[key]
        ELSE pri_item[key]]

MergeSectionItemsFilling(primary_items, secondary_items, table_name, item_type, id_field, primary_name, secondary_name) ==
    IF primary_items = <<>>
    THEN [raised |-> FALSE, items |-> secondary_items, warnings |-> <<>>]
    ELSE IF secondary_items = <<>>
    THEN [raised |-> FALSE, items |-> primary_items, warnings |-> <<>>]
    ELSE IF PrimaryMapRaises(primary_items, id_field)
    THEN [raised |-> TRUE, items |-> <<>>, warnings |-> <<>>]
    ELSE
      LET keys == PrimaryMapKeys(primary_items, id_field)
          Matches(item, sec_item) ==
              /\ id_field \in DOMAIN item
              /\ Lower(item[id_field].v) = Lower(sec_item[id_field].v)
          Loop[j \in 0..Len(secondary_items)] ==
            IF j = 0
            THEN [raised |-> FALSE, items |-> primary_items, warnings |-> <<>>]
            ELSE
              LET acc == Loop[j - 1]
                  sec_item == secondary_items[j]
              IN IF acc.raised THEN acc
                 ELSE IF id_field \notin DOMAIN sec_item
                 THEN [acc EXCEPT
                         !.items = Append(@, sec_item),
                         !.warnings = Append(@, MissingIdWarning(table_name,
                                         item_type, id_field, secondary_name))]
                 ELSE IF IsNone(sec_item[id_field])
                 THEN [raised |-> TRUE, items |-> <<>>, warnings |-> <<>>]
                 ELSE IF Lower(sec_item[id_field].v) \in keys
                 THEN [acc EXCEPT
                         !.items = [i \in DOMAIN @ |->
                                      IF i <= Len(primary_items) /\ Matches(@[i], sec_item)
                                      THEN FilledFrom(@[i], sec_item) ELSE @[i]],
                         !.warnings = @ \o ItemConflicts(
                            PrimaryMapGet(primary_items, id_field,
                                          Lower(sec_item[id_field].v)),
                            sec_item, table_name, item_type, id_field,
                            primary_name, secondary_name)]
                 ELSE [acc EXCEPT !.items = Append(@, sec_item)]
      IN Loop[Len(secondary_items)]

\* SchemaMerger._merge_section_items: [raised, items, warnings], warnings
\* being what the call appends to the table's warning list
MergeSectionItems(primary_items, secondary_items, table_name, item_type, id_field, primary_name, secondary_name) ==
    IF primary_items = <<>>
    THEN [raised |-> FALSE, items |-> secondary_items, warnings |-> <<>>]
    ELSE IF secondary_items = <<>>
    THEN [raised |-> FALSE, items |-> primary_items, warnings |-> <<>>]
    ELSE IF PrimaryMapRaises(primary_items, id_field)
    THEN [raised |-> TRUE, items |-> <<>>, warnings |-> <<>>]
    ELSE
      LET keys == PrimaryMapKeys(primary_items, id_field)
          Loop[j \in 0..Len(secondary_items)] ==
            IF j = 0
            THEN [raised |-> FALSE, items |-> primary_items, warnings |-> <<>>]
            ELSE
              LET acc == Loop[j - 1]
                  sec_item == secondary_items[j]
              IN IF acc.raised THEN acc
                 ELSE IF id_field \notin DOMAIN sec_item
                 THEN [acc EXCEPT
                         !.items = Append(@, sec_item),
                         !.warnings = Append(@, MissingIdWarning(table_name,
                                         item_type, id_field, secondary_name))]
                 ELSE IF IsNone(sec_item[id_field])
                 THEN [raised |-> TRUE, items |-> <<>>, warnings |-> <<>>]
                 ELSE IF Lower(sec_item[id_field].v) \in keys
                 THEN [acc EXCEPT
                         !.warnings = @ \o ItemConflicts(
                            PrimaryMapGet(primary_items, id_field,
                                          Lower(sec_item[id_field].v)),
                            sec_item, table_name, item_type, id_field,
                            primary_name, secondary_name)]
                 ELSE [acc EXCEPT !.items = Append(@, sec_item)]
      IN Loop[Len(secondary_items)]

\* pdf_data.get(table_name): None when the source has no such table
NoSection == [provenance |-> "None"]

Get(data, table_name) ==
    IF table_name \in DOMAIN data THEN data[table_name] ELSE NoSection

\* a ParsedSection is a dataclass without __bool__: only None is falsy
Truthy(section) == section # NoSection

Categories == <<"columns", "indexes", "foreign_keys", "computed_columns">>

ItemType(cat) ==
    CASE cat = "columns" -> "column"
      [] cat = "indexes" -> "index"
      [] cat = "foreign_keys" -> "foreign key"
      [] cat = "computed_columns" -> "computed column"

\* the names _merge_table gives the two sources
PdfName == "pdf"

HtmlName == "html"

\* CopySection without the computed columns
CopySectionWithoutComputed(base, section, source) ==
    [base EXCEPT !.extraction_source = source,
                 !.columns = section.columns,
                 !.indexes = section.indexes,
                 !.foreign_keys = section.foreign_keys]

\* the single-source cases of _merge_table, merger.py 113-129: the source's
\* name and deep copies of its four lists
CopySection(base, section, source) ==
    [base EXCEPT !.extraction_source = source,
                 !.columns = section.columns,
                 !.indexes = section.indexes,
                 !.foreign_keys = section.foreign_keys,
                 !.computed_columns = section.computed_columns]

\* SchemaMerger._merge_table: [raised, table]
MergeTable(table_name, pdf_section, html_section, prefer) ==
    LET parts == SplitOn(table_name, ".")
        hasDot == Contains(table_name, <<".">>)
        base == [schema |-> IF hasDot THEN parts[1] ELSE <<"d", "b", "o">>,
                 table_name |-> IF hasDot THEN parts[2] ELSE table_name,
                 columns |-> <<>>, indexes |-> <<>>, foreign_keys |-> <<>>,
                 computed_columns |-> <<>>, extraction_source |-> "",
                 warnings |-> <<>>]
    IN
    IF Truthy(pdf_section) /\ ~Truthy(html_section)
    THEN [raised |-> FALSE, table |-> CopySection(base, pdf_section, PdfName)]
    ELSE IF Truthy(html_section) /\ ~Truthy(pdf_section)
    THEN [raised |-> FALSE, table |-> CopySection(base, html_section, HtmlName)]
    ELSE IF Truthy(pdf_section) /\ Truthy(html_section)
    THEN
      LET primary == IF prefer THEN html_section ELSE pdf_section
          secondary == IF prefer THEN pdf_section ELSE html_section
          primary_name == IF prefer THEN HtmlName ELSE PdfName
          secondary_name == IF prefer THEN PdfName ELSE HtmlName
          M == [cat \in {Categories[i] : i \in DOMAIN Categories} |->
                   MergeSectionItems(primary[cat], secondary[cat], table_name,
                                     ItemType(cat), "name",
                                     primary_name, secondary_name)]
          Step[i \in 0..Len(Categories)] ==
            IF i = 0
            THEN [raised |-> FALSE,
                  table |-> [base EXCEPT !.extraction_source = "merged"]]
            ELSE
              LET acc == Step[i - 1]
                  cat == Categories[i]
              IN IF acc.raised THEN acc
                 ELSE IF M[cat].raised THEN [acc EXCEPT !.raised = TRUE]
                 ELSE [acc EXCEPT
                         !.table = [@ EXCEPT ![cat] = M[cat].items,
                                             !.warnings = @ \o M[cat].warnings]]
      IN Step[Len(Categories)]
    ELSE [raised |-> FALSE, table |-> base]

\* the result dict as merge() initialises it (extraction_date, the wall
\* clock, is left out)
EmptyResult ==
    [metadata |-> [total_tables |-> 0, pdf_only_tables |-> 0,
                   html_only_tables |-> 0, merged_tables |-> 0,
                   warnings |-> <<>>],
     tables |-> <<>>]

\* result["tables"][table_name] = merged_table
Put(tables, key, value) ==
    [k \in (DOMAIN tables) \cup {key} |-> IF k = key THEN value ELSE tables[k]]

\* Counted with "if" for "elif": a table of both sources is counted twice
CountedTwice(md, table_name, pdf, html) ==
    LET first == IF table_name \in DOMAIN pdf /\ table_name \in DOMAIN html
                 THEN [md EXCEPT !.merged_tables = @ + 1]
                 ELSE md
    IN IF table_name \in DOMAIN pdf
       THEN [first EXCEPT !.pdf_only_tables = @ + 1]
       ELSE [first EXCEPT !.html_only_tables = @ + 1]

\* the counter update of merge(), merger.py 75-81
Counted(md, table_name, pdf, html) ==
    IF table_name \in DOMAIN pdf /\ table_name \in DOMAIN html
    THEN [md EXCEPT !.merged_tables = @ + 1]
    ELSE IF table_name \in DOMAIN pdf
    THEN [md EXCEPT !.pdf_only_tables = @ + 1]
    ELSE [md EXCEPT !.html_only_tables = @ + 1]

RECURSIVE MergeLoop(_, _, _, _, _)
\* for table_name in all_tables: ...  (merger.py 64-81); a dict is truthy
\* exactly when it is not empty, and _merge_table never returns an empty one
MergeLoop(remaining, acc, pdf, html, prefer) ==
    IF remaining = {} \/ acc.raised THEN acc
    ELSE
      LET table_name == CHOOSE t \in remaining : TRUE
          m == MergeTable(table_name, Get(pdf, table_name),
                          Get(html, table_name), prefer)
          counted == Counted(acc.result.metadata, table_name, pdf, html)
          next ==
            IF m.raised THEN [acc EXCEPT !.raised = TRUE]
            ELSE [acc EXCEPT
                    !.result = [metadata |-> counted,
                                tables |-> Put(acc.result.tables, table_name,
                                               m.table)]]
      IN MergeLoop(remaining \ {table_name}, next, pdf, html, prefer)

\* SchemaMerger.merge: [raised, result]
MergeResult(pdf, html, prefer) ==
    LET all_tables == (DOMAIN pdf) \cup (DOMAIN html)
        start == [EmptyResult EXCEPT
                    !.metadata.total_tables = Cardinality(all_tables)]
    IN MergeLoop(all_tables, [raised |-> FALSE, result |-> start],
                 pdf, html, prefer)

---------------------------------------------------------------------------
(* The variables of the parts a specification leaves out. *)

MergeIdle ==
    /\ prefer_html = TRUE
    /\ pdf_data = <<>>
    /\ html_data = <<>>
    /\ result = EmptyResult
    /\ raised = ""
    /\ origins = <<>>

IndexIdle ==
    /\ index_lines = <<>>
    /\ indexes = <<>>
    /\ row_data = <<>>
    /\ index_item = None
    /\ index_rows = <<>>

ColumnIdle ==
    /\ column_rows = <<>>
    /\ column_text = <<>>
    /\ columns = <<>>

\* _toc_entries = None, pdf_parser.py 36
NoToc == [is_none |-> TRUE, list |-> <<>>]

\* _toc_entries = list
TocList(list) == [is_none |-> FALSE, list |-> list]

\* _page_drift_stats of a new PdfTextParser, pdf_parser.py 38-43
NoDriftStats == [total_tables |-> 0, tables_with_drift |-> 0, drift_counts |-> <<>>, drifted_tables |-> <<>>]

TextIdle ==
    /\ text_pages = <<>>
    /\ toc_entries = NoToc
    /\ page_drift_stats = NoDriftStats
    /\ parse_returns = <<>>
    /\ parse_log = <<>>

CliIdle == args_prefer_pdf = FALSE

\* _parse_section returning None, or not called yet
NoSectionText == [is_none |-> TRUE, lines |-> <<>>]

SectionIdle ==
    /\ section_name = <<>>
    /\ definition_text = <<>>
    /\ section_text = NoSectionText

DomIdle ==
    /\ soup = <<>>
    /\ table_types = <<>>
    /\ html_result = <<>>

LoadIdle ==
    /\ json_files = <<>>
    /\ max_workers = 0
    /\ futures = <<>>
    /\ completed = <<>>
    /\ all_data = <<>>
    /\ success_count = 0
    /\ load_returns = <<>>

---------------------------------------------------------------------------
(* Inputs of the merger: what the two parsers hand to merge(). *)

NameS == Str(<<"S">>)

NameLowerS == Str(<<"s">>)

NameT == Str(<<"t">>)

TypeV == Str(<<"v">>)

TypeW == Str(<<"w">>)

\* records as the parsers build them: with both fields, with a null field,
\* without the data type, without the name, with a null name
Items ==
    { [name |-> NameS, data_type |-> TypeV],
      [name |-> NameS, data_type |-> TypeW],
      [name |-> NameS, data_type |-> None],
      [name |-> NameT, data_type |-> TypeW],
      [name |-> NameLowerS],
      [data_type |-> TypeV],
      [name |-> None, data_type |-> TypeV] }

\* the pairs (text list, DOM list) of at most MaxItems records together
ItemListPairs ==
    UNION {UNION {[1..a -> Items] \X [1..b -> Items] : b \in 0..(MaxItems - a)} :
              a \in 0..MaxItems}

SectionOf(cols, idx, fks, comp, prov) ==
    [columns |-> cols, indexes |-> idx, foreign_keys |-> fks,
     computed_columns |-> comp, provenance |-> prov]

\* a section holding list in category cat and a fixed list elsewhere
SectionWith(cat, list, elsewhere, prov) ==
    [f \in {"columns", "indexes", "foreign_keys", "computed_columns", "provenance"} |->
        IF f = "provenance" THEN prov ELSE IF f = cat THEN list ELSE elsewhere]

TableOrders == <<"d", ".", "T">>

TableOrdersLower == <<"d", ".", "t">>

TableUsers == <<"x", ".", "U">>

TableNames == {TableOrders, TableOrdersLower, TableUsers}

CategorySet == {Categories[i] : i \in DOMAIN Categories}

\* sections of the table-level inputs
SectionPool(prov) ==
    { SectionOf(<<[name |-> NameS, data_type |-> TypeV], [name |-> NameT, data_type |-> TypeW]>>,
                <<[name |-> NameS, data_type |-> TypeV]>>, <<>>,
                <<[name |-> NameLowerS]>>, prov),
      SectionOf(<<[name |-> NameS, data_type |-> TypeW], [name |-> NameLowerS]>>,
                <<[name |-> NameS, data_type |-> TypeW]>>,
                <<[name |-> NameT, data_type |-> TypeW]>>, <<>>, prov) }

EmptySection(prov) == SectionOf(<<>>, <<>>, <<>>, <<>>, prov)

\* one table found by both parsers, with any two column lists
InitItems ==
    /\ pc = "ready"
    /\ prefer_html \in BOOLEAN
    /\ \E ph \in ItemListPairs :
          /\ pdf_data = [t \in {TableOrders} |->
                SectionWith("columns", ph[1], <<[name |-> NameS, data_type |-> TypeV]>>, PdfName)]
          /\ html_data = [t \in {TableOrders} |->
                SectionWith("columns", ph[2], <<[name |-> NameS, data_type |-> TypeW]>>, HtmlName)]
    /\ result = EmptyResult
    /\ raised = ""
    /\ origins = <<>>
    /\ IndexIdle
    /\ ColumnIdle
    /\ TextIdle
    /\ CliIdle
    /\ SectionIdle
    /\ DomIdle
    /\ LoadIdle

\* any tables in either source; the HTML parser keeps no empty section
\* (html_parser.py 114-117), the text parser may (pdf_parser.py 99-105)
InitTables ==
    /\ pc = "ready"
    /\ prefer_html \in BOOLEAN
    /\ \E pk \in SUBSET TableNames, hk \in SUBSET TableNames :
          /\ pdf_data \in [pk -> SectionPool(PdfName) \cup {EmptySection(PdfName)}]
          /\ html_data \in [hk -> SectionPool(HtmlName)]
    /\ result = EmptyResult
    /\ raised = ""
    /\ origins = <<>>
    /\ IndexIdle
    /\ ColumnIdle
    /\ TextIdle
    /\ CliIdle
    /\ SectionIdle
    /\ DomIdle
    /\ LoadIdle

InitMerge == InitItems \/ InitTables

----------------------------------------------------------------------------
(* Which objects the lists and records of the result are: deepcopy() gives
   new objects, a plain assignment would give the input's own. *)

\* the list of a category of a table of a source (item = 0), or its i-th item
ObjectRef(source, table_name, cat, item) ==
    [source |-> source, table |-> table_name, cat |-> cat, item |-> item]

\* an object that no input holds
NewObject == ObjectRef("new", <<>>, "", 0)

\* deepcopy with the object returned as it is: the result shares it
DeepcopyShared(ref) == ref

\* deepcopy(x): the object that stands for x in the result is a new one
Deepcopy(ref) == NewObject

\* deepcopy(section.<cat>) of a list of n items (merger.py 116-119, 125-128,
\* 201, 203, 206): the list and each of its items
DeepcopyList(source, table_name, cat, n) ==
    [list |-> Deepcopy(ObjectRef(source, table_name, cat, 0)),
     items |-> [i \in 1..n |-> Deepcopy(ObjectRef(source, table_name, cat, i))]]

\* the objects of the list _merge_section_items returns (merger.py 199-246),
\* for a call that does not raise: a copy of the other list when one is
\* empty, else a copy of the primary list and, appended, a copy of each
\* secondary item without id or with an id the primary source does not have
MergeSectionOrigins(primary_items, secondary_items, primary_name, secondary_name, table_name, cat, id_field) ==
    IF primary_items = <<>>
    THEN DeepcopyList(secondary_name, table_name, cat, Len(secondary_items))
    ELSE IF secondary_items = <<>>
    THEN DeepcopyList(primary_name, table_name, cat, Len(primary_items))
    ELSE
      LET keys == PrimaryMapKeys(primary_items, id_field)
          Appended(j) == \/ id_field \notin DOMAIN secondary_items[j]
                         \/ Lower(secondary_items[j][id_field].v) \notin keys
          Loop[j \in 0..Len(secondary_items)] ==
            IF j = 0 THEN DeepcopyList(primary_name, table_name, cat, Len(primary_items))
            ELSE IF Appended(j)
            THEN [Loop[j - 1] EXCEPT !.items = Append(@, Deepcopy(ObjectRef(secondary_name, table_name, cat, j)))]
            ELSE Loop[j - 1]
      IN Loop[Len(secondary_items)]

\* the objects of the four lists of a merged table (merger.py 113-170)
MergeTableOrigins(table_name, pdf, html, prefer) ==
    LET primary_name == IF prefer THEN HtmlName ELSE PdfName
        secondary_name == IF prefer THEN PdfName ELSE HtmlName
        primary == IF prefer THEN html ELSE pdf
        secondary == IF prefer THEN pdf ELSE html
    IN [cat \in {Categories[i] : i \in DOMAIN Categories} |->
          IF table_name \notin DOMAIN html
          THEN DeepcopyList(PdfName, table_name, cat, Len(pdf[table_name][cat]))
          ELSE IF table_name \notin DOMAIN pdf
          THEN DeepcopyList(HtmlName, table_name, cat, Len(html[table_name][cat]))
          ELSE MergeSectionOrigins(primary[table_name][cat], secondary[table_name][cat], primary_name, secondary_name, table_name, cat, "name")]

\* the objects of result["tables"] after a merge() that returns
MergeOrigins(pdf, html, prefer) ==
    [table_name \in (DOMAIN pdf) \cup (DOMAIN html) |-> MergeTableOrigins(table_name, pdf, html, prefer)]

\* merger.merge(pdf_results, html_results), cli.py 102-103
Merge ==
    /\ pc = "ready"
    /\ LET m == MergeResult(pdf_data, html_data, prefer_html)
       IN /\ result' = IF m.raised THEN result ELSE m.result
          /\ raised' = IF m.raised THEN "AttributeError" ELSE ""
          /\ pc' = IF m.raised THEN "raised" ELSE "done"
          /\ origins' = IF m.raised THEN origins ELSE MergeOrigins(pdf_data, html_data, prefer_html)
    /\ UNCHANGED <<prefer_html, pdf_data, html_data>>
    /\ UNCHANGED index_vars
    /\ UNCHANGED column_vars
    /\ UNCHANGED text_vars
    /\ UNCHANGED cli_vars
    /\ UNCHANGED section_vars
    /\ UNCHANGED dom_vars
    /\ UNCHANGED load_vars

NextMerge == Merge

SpecMerge == InitMerge /\ [][NextMerge]_vars

---------------------------------------------------------------------------
(* What the claims about the merger speak of. *)

Range(s) == {s[i] : i \in DOMAIN s}

Count(s, x) == Cardinality({i \in DOMAIN s : s[i] = x})

FieldSet == {FieldOrder[i] : i \in DOMAIN FieldOrder}

\* the tables both parsers found
BothTables == (DOMAIN pdf_data) \cap (DOMAIN html_data)

PrimaryOf(t) == IF prefer_html THEN html_data[t] ELSE pdf_data[t]

SecondaryOf(t) == IF prefer_html THEN pdf_data[t] ELSE html_data[t]

PrimaryName == IF prefer_html THEN "html" ELSE "pdf"

SecondaryName == IF prefer_html THEN "pdf" ELSE "html"

HasName(item) == "name" \in DOMAIN item /\ ~IsNone(item["name"])

\* the two records have the same name, letter case aside
SameName(a, b) == HasName(a) /\ HasName(b) /\ Lower(a["name"].v) = Lower(b["name"].v)

\* field k is in both records, null in neither, and differs
Differ(p, s, k) ==
    /\ k \in DOMAIN p
    /\ k \in DOMAIN s
    /\ ~IsNone(p[k])
    /\ ~IsNone(s[k])
    /\ p[k] # s[k]

\* the warnings of table t that report a conflict in category cat
ConflictWarnings(t, cat) ==
    LET Test(w) == w.kind = "Conflict" /\ w.item_type = ItemType(cat)
    IN SelectSeq(result.tables[t].warnings, Test)

\* the warnings of table t about a record of category cat without a name
MissingNameWarnings(t, cat) ==
    LET Test(w) == w.kind = "Warning" /\ w.item_type = ItemType(cat)
    IN SelectSeq(result.tables[t].warnings, Test)

\* the warning that names table t, the record s, the field k and both values
ConflictWarningFor(t, cat, p, s, k) ==
    [kind |-> "Conflict", item_type |-> ItemType(cat), item |-> s["name"].v,
     table |-> t, key |-> k, pri |-> p[k], sec |-> s[k],
     primary_name |-> PrimaryName, secondary_name |-> SecondaryName]

C1_OneWarningPerConflict(t, cat) ==
    LET prim == PrimaryOf(t)[cat]
        sec == SecondaryOf(t)[cat]
        merged == result.tables[t][cat]
        W == ConflictWarnings(t, cat)
        J == {j \in DOMAIN sec : \E i \in DOMAIN prim : SameName(prim[i], sec[j])}
    IN /\ \E f \in [J -> DOMAIN prim] :
            /\ \A j \in J : SameName(prim[f[j]], sec[j])
            /\ LET E == {jk \in J \X FieldSet : Differ(prim[f[jk[1]]], sec[jk[1]], jk[2])}
                   Exp(jk) == ConflictWarningFor(t, cat, prim[f[jk[1]]], sec[jk[1]], jk[2])
               IN /\ Len(W) = Cardinality(E)
                  /\ \A jk \in E : Count(W, Exp(jk)) = Cardinality({e \in E : Exp(e) = Exp(jk)})
       /\ \A i \in DOMAIN prim : i \in DOMAIN merged /\ merged[i] = prim[i]

\* C1: in a table of both sources, every secondary record that matches a
\* primary record by name (letter case aside) gets, for each field the two
\* records both hold with different non-null values, exactly one warning
\* naming the record and the field, and no other conflict warning is
\* recorded; the merged record keeps the primary's values.
C1_ConflictWarnings ==
    pc = "done" =>
        \A t \in BothTables, cat \in CategorySet : C1_OneWarningPerConflict(t, cat)

\* the example of the specification: Status is varchar in the DOM and
\* varchar(10) in the text, the DOM preferred
C1_Witness ==
    /\ pc = "done"
    /\ prefer_html
    /\ TableOrders \in BothTables
    /\ html_data[TableOrders].columns = <<[name |-> NameS, data_type |-> TypeV]>>
    /\ pdf_data[TableOrders].columns = <<[name |-> NameS, data_type |-> TypeW]>>
    /\ result.tables[TableOrders].columns[1].data_type = TypeV
    /\ Len(ConflictWarnings(TableOrders, "columns")) = 1
    /\ ConflictWarnings(TableOrders, "columns")[1].item = NameS.v
    /\ ConflictWarnings(TableOrders, "columns")[1].key = "data_type"

C2_MergedList(prim, sec) ==
    LET Unmatched(s) == ~\E i \in DOMAIN prim : SameName(prim[i], s)
    IN prim \o SelectSeq(sec, Unmatched)

\* C2: in a table of both sources each merged list is the primary records in
\* their order, then the secondary records whose name matches no primary
\* record, in their order; so every name of either source is in the list.
C2_PrimaryThenSecondaryOnly ==
    pc = "done" =>
        \A t \in BothTables, cat \in CategorySet :
            LET prim == PrimaryOf(t)[cat]
                sec == SecondaryOf(t)[cat]
                merged == result.tables[t][cat]
            IN /\ merged = C2_MergedList(prim, sec)
               /\ \A r \in Range(prim) \cup Range(sec) :
                     HasName(r) => \E m \in Range(merged) : SameName(m, r)

\* a merge with a matched and an unmatched secondary record
C2_Witness ==
    /\ pc = "done"
    /\ \E t \in BothTables :
          LET prim == PrimaryOf(t).columns
              sec == SecondaryOf(t).columns
          IN /\ prim # <<>>
             /\ \E j \in DOMAIN sec : \E i \in DOMAIN prim : SameName(prim[i], sec[j])
             /\ \E j \in DOMAIN sec :
                   HasName(sec[j]) /\ ~\E i \in DOMAIN prim : SameName(prim[i], sec[j])
             /\ Len(result.tables[t].columns) = Len(prim) + 1

\* C3: no two columns of a merged table have the same name, letter case
\* aside, whatever the two input lists.
C3_UniqueColumnNames ==
    pc = "done" =>
        \A t \in DOMAIN result.tables :
            LET cols == result.tables[t].columns
            IN \A i \in DOMAIN cols, j \in DOMAIN cols :
                  i # j => ~SameName(cols[i], cols[j])

\* C4: a table whose name differs only by letter case between the two
\* sources becomes one merged table, not two single-source tables.
C4_CaseInsensitiveTables ==
    pc = "done" =>
        \A a \in DOMAIN pdf_data, b \in DOMAIN html_data :
            Lower(a) = Lower(b) =>
                \E k \in DOMAIN result.tables :
                    /\ Lower(k) = Lower(a)
                    /\ result.tables[k].extraction_source = "merged"
                    /\ \A k2 \in DOMAIN result.tables : Lower(k2) = Lower(a) => k2 = k

\* the table of one source only is that source's lists, with no warning
C5_Copied(t, section, source) ==
    /\ result.tables[t].extraction_source = source
    /\ \A cat \in CategorySet : result.tables[t][cat] = section[cat]
    /\ result.tables[t].warnings = <<>>

C6_TablesAndCounters ==
    pc = "done" =>
        LET md == result.metadata
        IN /\ DOMAIN result.tables = (DOMAIN pdf_data) \cup (DOMAIN html_data)
           /\ md.total_tables = md.pdf_only_tables + md.html_only_tables + md.merged_tables
           /\ md.total_tables = Cardinality(DOMAIN result.tables)
           /\ md.merged_tables = Cardinality(BothTables)
           /\ md.pdf_only_tables = Cardinality((DOMAIN pdf_data) \ (DOMAIN html_data))
           /\ md.html_only_tables = Cardinality((DOMAIN html_data) \ (DOMAIN pdf_data))

\* a merge with tables of all three kinds
C6_Witness ==
    /\ pc = "done"
    /\ result.metadata.merged_tables >= 1
    /\ result.metadata.pdf_only_tables >= 1
    /\ result.metadata.html_only_tables >= 1

\* C7: every warning recorded on a merged table is in metadata.warnings.
C7_MetadataHoldsWarnings ==
    pc = "done" =>
        \A t \in DOMAIN result.tables :
            \A w \in Range(result.tables[t].warnings) :
                w \in Range(result.metadata.warnings)

\* the secondary record has no name: the field is absent or null
Nameless(item) == ~HasName(item)

\* C8: in a table of both sources, a secondary record without a name (field
\* absent or null) is appended to the merged list with exactly one warning,
\* and the merge does not abort, whatever the primary list holds.
C8_NamelessAppendedWithWarning ==
    pc # "ready" =>
        \A t \in BothTables, cat \in CategorySet :
            LET sec == SecondaryOf(t)[cat]
                prim == PrimaryOf(t)[cat]
                N == {j \in DOMAIN sec : Nameless(sec[j])}
            IN N # {} =>
                 /\ pc = "done"
                 /\ Len(MissingNameWarnings(t, cat)) = Cardinality(N)
                 /\ \A j \in N :
                       Count(result.tables[t][cat], sec[j]) >=
                          Count(sec, sec[j]) + Count(prim, sec[j])

---------------------------------------------------------------------------
(* pdf_parser.py: PdfTextParser._parse_indexes, and html_parser.py:        *)
(* HtmlDomParser._normalize_row_data for an index row.  A Python bool or   *)
(* None held by a record is "True", "False" or "None".                     *)

PyBool(b) == IF b THEN "True" ELSE "False"

\* str.upper() on one character
UpperChar(c) ==
    IF \E i \in DOMAIN LowerLetters : LowerLetters[i] = c
    THEN UpperLetters[CHOOSE i \in DOMAIN LowerLetters : LowerLetters[i] = c]
    ELSE c

\* str.upper()
Upper(s) == [i \in DOMAIN s |-> UpperChar(s[i])]

\* str.strip(), the blank being the only white space of the model
Strip(s) ==
    LET idx == {i \in DOMAIN s : s[i] # " "}
    IN IF idx = {} THEN <<>>
       ELSE SubSeq(s, CHOOSE i \in idx : \A j \in idx : i <= j,
                      CHOOSE i \in idx : \A j \in idx : j <= i)

\* the number of blanks s starts with
LeadingBlanks(s) ==
    CHOOSE n \in 0..Len(s) :
        /\ \A i \in 1..n : s[i] = " "
        /\ n = Len(s) \/ s[n + 1] # " "

RECURSIVE SplitRuns(_)
\* re.split(r'\s{2,}', s): the parts between runs of two or more blanks
SplitRuns(s) ==
    LET k == Find(s, <<" ", " ">>, 0)
        rest == SubSeq(s, k + 1, Len(s))
    IN IF k < 0 THEN <<s>>
       ELSE <<SubSeq(s, 1, k)>> \o SplitRuns(SubSeq(rest, LeadingBlanks(rest) + 1, Len(rest)))

RECURSIVE Join(_, _)
\* sep.join(parts)
Join(parts, sep) ==
    IF parts = <<>> THEN <<>>
    ELSE IF Len(parts) = 1 THEN parts[1]
    ELSE parts[1] \o sep \o Join(Tail(parts), sep)

RECURSIVE RemoveQualifiers(_)
\* re.sub(r'\(ASC\)|\(DESC\)', '', s)
RemoveQualifiers(s) ==
    IF s = <<>> THEN <<>>
    ELSE IF StartsWith(s, <<"(", "A", "S", "C", ")">>)
    THEN RemoveQualifiers(SubSeq(s, 6, Len(s)))
    ELSE IF StartsWith(s, <<"(", "D", "E", "S", "C", ")">>)
    THEN RemoveQualifiers(SubSeq(s, 7, Len(s)))
    ELSE <<s[1]>> \o RemoveQualifiers(Tail(s))

\* [col.strip() for col in cols.split(',')] after the qualifiers are removed
KeyColumnList(key_columns) ==
    LET cols == SplitOn(RemoveQualifiers(key_columns), ",")
    IN [i \in DOMAIN cols |-> Strip(cols[i])]

\* the cleanup loop of _parse_indexes, pdf_parser.py 628-634
WithKeyColumnList(idx) ==
    IF idx.key_columns # <<>>
    THEN idx @@ [key_column_list |-> KeyColumnList(idx.key_columns)]
    ELSE idx

\* a line of two or more parts, pdf_parser.py 577-611
IndexFromParts(parts) ==
    LET name == parts[1]
        is_primary == Contains(name, <<"P", "K">>) \/ StartsWith(name, <<"P", "K", "_">>)
        is_unique == Contains(name, <<"U", "K">>) \/ StartsWith(name, <<"U", "Q", "_">>) \/ is_primary
        third_part == Upper(parts[3])
        yes == third_part \in {<<"Y", "E", "S">>, <<"Y">>, <<"U", "N", "I", "Q", "U", "E">>}
        no == third_part \in {<<"N", "O">>, <<"N">>}
        flagged == IF Len(parts) > 2 /\ yes THEN TRUE
                   ELSE IF Len(parts) > 2 /\ no THEN FALSE
                   ELSE is_unique
        index_data == [name |-> name, key_columns |-> parts[2],
                       is_unique |-> PyBool(flagged), is_primary |-> PyBool(is_primary)]
    IN IF Len(parts) > 3 THEN index_data @@ [type |-> Str(parts[4])]
       ELSE IF Len(parts) > 2 /\ ~yes /\ ~no THEN index_data @@ [type |-> Str(parts[3])]
       ELSE index_data

\* re.match of the pattern of pdf_parser.py 614 on a line whose words are
\* one blank apart and hold no parenthesis: [matched, key_type, name,
\* key_columns].  A leading PK or UK is taken as the key type, the rest of
\* the word as the name; the key columns run to the end of the line, so the
\* groups for the unique flag and the index type stay empty.
IndexRegexMatch(line) ==
    LET words == SplitOn(line, " ")
        n == Len(words)
        first == words[1]
        marked == /\ Len(first) >= 2
                  /\ Upper(SubSeq(first, 1, 2)) \in {<<"P", "K">>, <<"U", "K">>}
    IN IF n < 2
       THEN [matched |-> FALSE, key_type |-> <<>>, name |-> <<>>, key_columns |-> <<>>]
       ELSE IF marked /\ Len(first) > 2
       THEN [matched |-> TRUE, key_type |-> SubSeq(first, 1, 2),
             name |-> SubSeq(first, 3, Len(first)),
             key_columns |-> Join(Tail(words), <<" ">>)]
       ELSE IF marked /\ n >= 3
       THEN [matched |-> TRUE, key_type |-> first \o <<" ">>, name |-> words[2],
             key_columns |-> Join(Tail(Tail(words)), <<" ">>)]
       ELSE [matched |-> TRUE, key_type |-> <<>>, name |-> first,
             key_columns |-> Join(Tail(words), <<" ">>)]

\* the record of a line the pattern matched, pdf_parser.py 616-625
IndexFromMatch(m) ==
    [name |-> m.name,
     key_columns |-> Strip(m.key_columns),
     is_unique |-> PyBool(m.key_type # <<>> /\ Contains(Upper(m.key_type), <<"U", "K">>)),
     type |-> None,
     is_primary |-> PyBool(m.key_type # <<>> /\ Contains(Upper(m.key_type), <<"P", "K">>))]

\* the records of one data line: none, or one
IndexesOfLine(line) ==
    LET parts == SplitRuns(line)
    IN IF Len(line) < 5 THEN <<>>
       ELSE IF Len(parts) >= 2 THEN <<IndexFromParts(parts)>>
       ELSE IF IndexRegexMatch(line).matched THEN <<IndexFromMatch(IndexRegexMatch(line))>>
       ELSE <<>>

\* PdfTextParser._parse_indexes on the lines of a section that is present
ParseIndexes(lines) ==
    LET Stripped(i) == Strip(lines[i])
        IsHeader(i) == /\ Stripped(i) # <<>>
                       /\ Contains(Lower(Stripped(i)), <<"n", "a", "m", "e">>)
                       /\ Contains(Lower(Stripped(i)), <<"k", "e", "y", " ", "c", "o", "l", "u", "m", "n", "s">>)
        headers == {i \in DOMAIN lines : IsHeader(i)}
        first == IF headers = {} THEN 0 ELSE CHOOSE i \in headers : \A j \in headers : i <= j
        Kept(i) == /\ i > first
                   /\ Stripped(i) # <<>>
                   /\ headers # {} \/ ~StartsWith(Stripped(i), <<"I", "n", "d", "e", "x", "e", "s">>)
        Loop[i \in 0..Len(lines)] ==
            IF i = 0 THEN <<>>
            ELSE IF Kept(i) THEN Loop[i - 1] \o IndexesOfLine(Stripped(i))
            ELSE Loop[i - 1]
        found == Loop[Len(lines)]
    IN [i \in DOMAIN found |-> WithKeyColumnList(found[i])]

\* parse_boolean
ParseBoolean(value) ==
    IF IsNone(value) THEN "None"
    ELSE PyBool(Lower(Strip(value.v)) \in {<<"y", "e", "s">>, <<"t", "r", "u", "e">>, <<"1">>, <<"y">>})

\* a string is truthy when it is not empty, None is not
TruthyValue(x) == ~IsNone(x) /\ x.v # <<>>

\* row_data.get(key)
RowGet(row, key) == IF key \in DOMAIN row THEN Str(row[key]) ELSE None

\* row_data.get(a) or row_data.get(b)
RowGetOr(row, a, b) == IF TruthyValue(RowGet(row, a)) THEN RowGet(row, a) ELSE RowGet(row, b)

\* HtmlDomParser._normalize_row_data(row_data, "indexes"): None, or the record
NormalizeIndexRow(row) ==
    LET name == RowGetOr(row, "name", "index_name")
        key_columns == RowGetOr(row, "key_columns", "columns")
        is_primary == Contains(name.v, <<"P", "K">>) \/ StartsWith(name.v, <<"P", "K", "_">>)
        by_name == is_primary \/ Contains(name.v, <<"U", "K">>) \/ StartsWith(name.v, <<"U", "Q", "_">>)
        is_unique == IF by_name THEN "True"
                     ELSE ParseBoolean(RowGetOr(row, "is_unique", "unique"))
        index_data == [name |-> name.v, key_columns |-> key_columns,
                       is_unique |-> is_unique, is_primary |-> PyBool(is_primary),
                       type |-> RowGetOr(row, "type", "index_type")]
    IN IF DOMAIN row = {} THEN None
       ELSE IF ~TruthyValue(name) THEN None
       ELSE IF TruthyValue(key_columns)
       THEN index_data @@ [key_column_list |-> KeyColumnList(key_columns.v)]
       ELSE index_data

---------------------------------------------------------------------------
(* Inputs of the index parsers. *)

NamePkOrderId == <<"P", "K", "_", "O", "r", "d", "e", "r", "_", "I", "d">>

NameIx == <<"I", "X", "_", "O">>

NameUq == <<"U", "Q", "_", "O">>

NameUk == <<"U", "K", "_", "O">>

NamePk == <<"P", "K">>

NameOPk == <<"O", "_", "P", "K">>

IndexNames == {NamePkOrderId, NameIx, NameUq, NameUk, NamePk, NameOPk}

KeyColumns == {<<"I", "d">>, <<"I", "d", ",", "N", "o">>}

\* what may follow the key columns: a unique flag, an index type
UniqueFlags == {<<"Y", "E", "S">>, <<"N", "O">>, <<"Y">>, <<"N">>, <<"U", "N", "I", "Q", "U", "E">>, <<"n", "o">>}

TypeClustered == <<"C">>

LineTails ==
    {<<>>, <<TypeClustered>>}
        \cup {<<f>> : f \in UniqueFlags}
        \cup {<<f, TypeClustered>> : f \in UniqueFlags}

\* the words of a row are one blank apart, or two
Separators == {<<" ">>, <<" ", " ">>}

IndexHeaderLine == <<"N", "a", "m", "e", " ", " ", "K", "e", "y", " ", "C", "o", "l", "u", "m", "n", "s", " ", " ", "U", "n", "i", "q", "u", "e">>

SecondIndexLine == <<"I", "X", "_", "O", " ", " ", "I", "d">>

IndexDataLines ==
    {Join(<<n, k>> \o t, sep) : n \in IndexNames, k \in KeyColumns, t \in LineTails, sep \in Separators}

\* a section: a header line or none, one row, a second row or none
IndexSections ==
    {h \o <<l>> \o t : h \in {<<>>, <<IndexHeaderLine>>}, l \in IndexDataLines, t \in {<<>>, <<SecondIndexLine>>}}

\* the cells of a row of a DOM index table, by header name
IndexRows ==
    UNION {UNION {[nk -> (IndexNames \cup {<<>>})] \X [kc -> KeyColumns] \X [uk -> {<<"Y", "E", "S">>, <<"N", "O">>, <<"Y">>, <<"N">>, <<>>}] :
                     kc \in {{}, {"key_columns"}}, uk \in {{}, {"unique"}, {"is_unique"}}} :
              nk \in {{"name"}, {"index_name"}}}

InitTextIndex ==
    /\ pc = "text_index_ready"
    /\ MergeIdle
    /\ ColumnIdle
    /\ TextIdle
    /\ CliIdle
    /\ SectionIdle
    /\ DomIdle
    /\ LoadIdle
    /\ index_lines \in IndexSections
    /\ indexes = <<>>
    /\ row_data = <<>>
    /\ index_item = None
    /\ index_rows = <<>>

InitDomIndex ==
    /\ pc = "dom_index_ready"
    /\ MergeIdle
    /\ ColumnIdle
    /\ TextIdle
    /\ CliIdle
    /\ SectionIdle
    /\ DomIdle
    /\ LoadIdle
    /\ index_lines = <<>>
    /\ indexes = <<>>
    /\ \E r \in IndexRows : row_data = r[1] @@ r[2] @@ r[3]
    /\ index_item = None
    /\ index_rows = <<>>

InitIndex == InitTextIndex \/ InitDomIndex

\* indexes = self._parse_indexes(definition_text), pdf_parser.py 93
DoParseIndexes ==
    /\ pc = "text_index_ready"
    /\ indexes' = ParseIndexes(index_lines)
    /\ pc' = "text_index_done"
    /\ UNCHANGED <<index_lines, row_data, index_item, index_rows>>
    /\ UNCHANGED merge_vars
    /\ UNCHANGED column_vars
    /\ UNCHANGED text_vars
    /\ UNCHANGED cli_vars
    /\ UNCHANGED section_vars
    /\ UNCHANGED dom_vars
    /\ UNCHANGED load_vars

\* processed_item = self._normalize_row_data(row_data, table_type),
\* html_parser.py 231, for a table classified "indexes"
DoNormalizeRowData ==
    /\ pc = "dom_index_ready"
    /\ index_item' = NormalizeIndexRow(row_data)
    /\ pc' = "dom_index_done"
    /\ UNCHANGED <<index_lines, indexes, row_data, index_rows>>
    /\ UNCHANGED merge_vars
    /\ UNCHANGED column_vars
    /\ UNCHANGED text_vars
    /\ UNCHANGED cli_vars
    /\ UNCHANGED section_vars
    /\ UNCHANGED dom_vars
    /\ UNCHANGED load_vars

NextIndex == DoParseIndexes \/ DoNormalizeRowData

SpecIndex == InitIndex /\ [][NextIndex]_vars

---------------------------------------------------------------------------
(* What the claim about the index parsers speaks of. *)

\* the rows of the section: its lines but the header
IndexRowsOf(lines) ==
    LET Test(l) == l # IndexHeaderLine
    IN SelectSeq(lines, Test)

\* the index name of a row: its first word
IndexNameOf(line) == SplitOn(line, " ")[1]

\* the name follows the primary-key convention
PrimaryKeyName(name) == StartsWith(name, <<"P", "K", "_">>)

\* C9: an index named by the primary-key convention (PK_Order_Id) comes out
\* with is_primary and is_unique true from the text index parser and from
\* the DOM index normaliser, whatever unique flag its row holds.
C9_PrimaryKeyIsPrimaryAndUnique ==
    /\ pc = "text_index_done" =>
          LET rows == IndexRowsOf(index_lines)
          IN /\ Len(indexes) = Len(rows)
             /\ \A i \in DOMAIN rows :
                   PrimaryKeyName(IndexNameOf(rows[i])) =>
                       indexes[i].is_primary = "True" /\ indexes[i].is_unique = "True"
    /\ pc = "dom_index_done" =>
          \A k \in {"name"} \cap DOMAIN row_data :
              PrimaryKeyName(row_data[k]) =>
                  /\ index_item # None
                  /\ index_item.is_primary = "True"
                  /\ index_item.is_unique = "True"

---------------------------------------------------------------------------
(* core.py: parse_column_section *)

Digits == <<"0", "1", "2", "3", "4", "5", "6", "7", "8", "9">>

\* str.isdigit()
IsDigit(s) == s # <<>> /\ \A i \in DOMAIN s : \E d \in DOMAIN Digits : Digits[d] = s[i]

RECURSIVE ToInt(_)
\* int(s) of a string of digits
ToInt(s) ==
    IF s = <<>> THEN 0
    ELSE 10 * ToInt(SubSeq(s, 1, Len(s) - 1))
            + (CHOOSE d \in DOMAIN Digits : Digits[d] = s[Len(s)]) - 1

RECURSIVE SplitWords(_)
\* s.split(): the words between runs of blanks
SplitWords(s) ==
    LET t == SubSeq(s, LeadingBlanks(s) + 1, Len(s))
        k == Find(t, <<" ">>, 0)
    IN IF t = <<>> THEN <<>>
       ELSE IF k < 0 THEN <<t>>
       ELSE <<SubSeq(t, 1, k)>> \o SplitWords(SubSeq(t, k + 1, Len(t)))

\* s[a:b] for 0 <= a and 0 <= b
Slice(s, a, b) ==
    LET hi == IF b < Len(s) THEN b ELSE Len(s)
    IN IF a >= hi THEN <<>> ELSE SubSeq(s, a + 1, hi)

\* x in parts
InList(x, parts) == \E i \in DOMAIN parts : parts[i] = x

\* the lines parse_column_section takes for data: those after the first
\* header line, all lines when there is none (core.py 36-55)
ColumnDataLines(lines) ==
    LET first == {i \in DOMAIN lines : Contains(lines[i], <<"D", "a", "t", "a", " ", "T", "y", "p", "e">>) \/ Contains(lines[i], <<"A", "l", "l", "o", "w", " ", "N", "u", "l", "l", "s">>)}
        second == {i \in DOMAIN lines : Contains(lines[i], <<"K", "e", "y", " ", "N", "a", "m", "e">>)}
        header == IF first # {} THEN first ELSE second
        h == IF header = {} THEN 0 ELSE CHOOSE i \in header : \A j \in header : i <= j
    IN SubSeq(lines, h + 1, Len(lines))

\* the line is skipped as boilerplate (core.py 61)
ColumnLineSkipped(line) ==
    \/ line = <<>>
    \/ StartsWith(line, <<"P", "a", "g", "e">>)
    \/ StartsWith(line, <<"C", "o", "p", "y", "r", "i", "g", "h", "t">>)
    \/ Contains(line, <<"O", "L", "T", "P", " ", "D", "B">>)

\* the 0-based index of the first all-digit part after the first two, -1
\* when there is none (core.py 74-79)
LengthIdx(parts) ==
    LET hits == {i \in 2..(Len(parts) - 1) : IsDigit(parts[i + 1])}
    IN IF hits = {} THEN 0 - 1 ELSE CHOOSE i \in hits : \A j \in hits : i <= j

\* the nullable entry (core.py 82-83)
NullableOf(parts) ==
    LET rest == SubSeq(parts, LengthIdx(parts) + 2, Len(parts))
    IN IF InList(<<"T", "r", "u", "e">>, rest) \/ InList(<<"F", "a", "l", "s", "e">>, rest)
       THEN [nullable |-> PyBool(InList(<<"T", "r", "u", "e">>, rest))]
       ELSE <<>>

\* the identity entries (core.py 86-92)
IdentityOf(parts) ==
    LET length_idx == LengthIdx(parts)
        remaining == Join(SubSeq(parts, length_idx + 2, Len(parts)), <<" ">>)
        identity_parts == SplitOn(remaining, "-")
    IN IF /\ length_idx > 0
          /\ length_idx < Len(parts) - 1
          /\ Contains(remaining, <<"-">>)
          /\ \E i \in DOMAIN remaining : IsDigit(<<remaining[i]>>)
          /\ Len(identity_parts) >= 2
          /\ IsDigit(Strip(identity_parts[1]))
       THEN [identity_seed |-> Strip(identity_parts[1]),
             identity_increment |-> Strip(identity_parts[2])]
       ELSE <<>>

\* the default entry (core.py 95-98): from the first "((" to the end of the
\* first "))" found at or after it
DefaultOf(line) ==
    LET default_start == Find(line, <<"(", "(">>, 0)
        default_end == Find(line, <<")", ")">>, default_start) + 2
    IN IF Contains(line, <<"(", "(">>) /\ Contains(line, <<")", ")">>)
       THEN [default |-> Slice(line, default_start, default_end)]
       ELSE <<>>

\* the column of one data line
ColumnOfLine(line) ==
    LET parts == SplitWords(line)
        length_idx == LengthIdx(parts)
        length == IF length_idx < 0 THEN <<>> ELSE [length |-> ToInt(parts[length_idx + 1])]
    IN [name |-> parts[1], data_type |-> parts[2]]
          @@ length @@ NullableOf(parts) @@ IdentityOf(parts) @@ DefaultOf(line)

\* parse_column_section(column_text), column_text split at its line ends
ParseColumnSection(text) ==
    LET kept == LET NotEmpty(l) == Strip(l) # <<>> IN SelectSeq(text, NotEmpty)
        lines == [i \in DOMAIN kept |-> Strip(kept[i])]
        data_lines == ColumnDataLines(lines)
        Loop[i \in 0..Len(data_lines)] ==
            IF i = 0 THEN <<>>
            ELSE IF ColumnLineSkipped(data_lines[i]) \/ Len(SplitWords(data_lines[i])) < 3
            THEN Loop[i - 1]
            ELSE Append(Loop[i - 1], ColumnOfLine(data_lines[i]))
    IN Loop[Len(data_lines)]

---------------------------------------------------------------------------
(* the Columns tables the column-section parser is run on *)

MaxDefaultLen == 3

\* the characters of a default expression's body
DefaultChars == {"1", "f", "(", ")"}

\* how many parentheses of s are left open after its first n characters
RECURSIVE OpenAfter(_, _)
OpenAfter(s, n) ==
    IF n = 0 THEN 0
    ELSE OpenAfter(s, n - 1) + (IF s[n] = "(" THEN 1 ELSE IF s[n] = ")" THEN 0 - 1 ELSE 0)

\* every parenthesis of s is closed, and none closes before it opens
Balanced(s) == OpenAfter(s, Len(s)) = 0 /\ \A n \in 0..Len(s) : OpenAfter(s, n) >= 0

\* the bodies of the default expressions: 1, f(), (1), f1, ...
DefaultBodies ==
    {b \in UNION {[1..n -> DefaultChars] : n \in 1..MaxDefaultLen} : Balanced(b)}

\* the default expressions "((body))" of a row, <<>> for a row without one
DefaultExprs == {<<>>} \cup {<<"(", "(">> \o b \o <<")", ")">> : b \in DefaultBodies}

ColumnNames == {<<"I", "d">>, <<"I", "s", "A", "c", "t", "i", "v", "e">>}

ColumnTypes == {<<"i", "n", "t">>, <<"v", "a", "r", "c", "h", "a", "r", "(", "9", ")">>}

ColumnLengths == {<<"4">>, <<"1", "0">>}

\* the Allow Nulls cell of a row, <<>> for an empty one
ColumnNullFlags == {<<>>, <<"T", "r", "u", "e">>, <<"F", "a", "l", "s", "e">>}

\* the Identity cell of a row, <<>> for no identity
ColumnIdentities == {<<>>, <<"5", "0", "0", "0", "0", "1", " ", "-", " ", "1">>, <<"1", "-", "1">>}

ColumnRows ==
    [name : ColumnNames, data_type : ColumnTypes, length : ColumnLengths, nullable : ColumnNullFlags, identity : ColumnIdentities, default : DefaultExprs]

\* the text line of a row: its non-empty cells, one blank between them
ColumnLine(row) ==
    LET NotEmpty(c) == c # <<>>
    IN Join(SelectSeq(<<row.name, row.data_type, row.length, row.nullable, row.identity, row.default>>, NotEmpty), <<" ">>)

ColumnTitleLine == <<"M", "a", "x", " ", "L", "e", "n", "g", "t", "h">>

ColumnHeaderLine == <<"K", "e", "y", " ", "N", "a", "m", "e", " ", "D", "a", "t", "a", " ", "T", "y", "p", "e", " ", "(", "B", "y", "t", "e", "s", ")", " ", "A", "l", "l", "o", "w", " ", "N", "u", "l", "l", "s", " ", "I", "d", "e", "n", "t", "i", "t", "y", " ", "D", "e", "f", "a", "u", "l", "t">>

\* the last row of the sample table of tests/test_parsers.py
LastColumnRow ==
    [name |-> <<"N", "a", "m", "e">>, data_type |-> <<"v", "a", "r", "c", "h", "a", "r", "(", "2", "5", "5", ")">>, length |-> <<"2", "5", "5">>, nullable |-> <<"T", "r", "u", "e">>, identity |-> <<>>, default |-> <<>>]

\* the text of a Columns table, with or without its header line
ColumnText(rows, with_header) ==
    <<ColumnTitleLine>> \o (IF with_header THEN <<ColumnHeaderLine>> ELSE <<>>)
        \o [i \in DOMAIN rows |-> ColumnLine(rows[i])]

InitColumn ==
    /\ pc = "column_ready"
    /\ \E row \in ColumnRows, with_header \in BOOLEAN :
          /\ column_rows = <<row, LastColumnRow>>
          /\ column_text = ColumnText(column_rows, with_header)
    /\ columns = <<>>
    /\ MergeIdle
    /\ IndexIdle
    /\ TextIdle
    /\ CliIdle
    /\ SectionIdle
    /\ DomIdle
    /\ LoadIdle

\* columns = parse_column_section(column_text)
DoParseColumnSection ==
    /\ pc = "column_ready"
    /\ columns' = ParseColumnSection(column_text)
    /\ pc' = "column_done"
    /\ UNCHANGED <<column_rows, column_text>>
    /\ UNCHANGED merge_vars
    /\ UNCHANGED index_vars
    /\ UNCHANGED text_vars
    /\ UNCHANGED cli_vars
    /\ UNCHANGED section_vars
    /\ UNCHANGED dom_vars
    /\ UNCHANGED load_vars

NextColumn == DoParseColumnSection

SpecColumn == InitColumn /\ [][NextColumn]_vars

---------------------------------------------------------------------------
(* claims about the column-section parser *)

\* the row of the table has a default expression
HasDefault(row) == row.default # <<>>

\* C10: for every data line that holds a default expression "((...))", the
\* column parsed from the line has a default, and it is that expression
\* character for character, from its opening "((" to its closing "))",
\* whatever the body of the expression, bodies with parentheses included.
C10_DefaultRoundTrips ==
    pc = "column_done" =>
        /\ Len(columns) = Len(column_rows)
        /\ \A i \in DOMAIN column_rows :
              HasDefault(column_rows[i]) =>
                  /\ "default" \in DOMAIN columns[i]
                  /\ columns[i].default = column_rows[i].default

---------------------------------------------------------------------------
(* pdf_parser.py: the table of contents *)

\* PDF_PAGE_OFFSET
PdfPageOffset == 2

\* MAX_PAGES_PER_TABLE_DEF
MaxPagesPerTableDef == 5

\* search_range of _extract_table_definition_section
SearchRange == 2

\* the title is looked for on the pages range(1, min(21, len(pages)))
TocSearchEnd == 21

\* max_toc_pages
MaxTocPages == 10

Min(a, b) == IF a <= b THEN a ELSE b

Max(a, b) == IF a >= b THEN a ELSE b

\* pages[p] of Python, whose indices start at 0
PageAt(pages, p) == pages[p + 1]

\* s[i] for an index from 1 on, "" past the end of s
CharAt(s, i) == IF i \in DOMAIN s THEN s[i] ELSE ""

\* \w: a letter, a digit or the underscore
WordChars ==
    {UpperLetters[k] : k \in DOMAIN UpperLetters} \cup {LowerLetters[k] : k \in DOMAIN LowerLetters}
        \cup {Digits[k] : k \in DOMAIN Digits} \cup {"_"}

IsWordChar(c) == c \in WordChars

\* [\. ]: the characters between a name and its page number
IsFillChar(c) == c = "." \/ c = " "

DigitChars == {Digits[k] : k \in DOMAIN Digits}

IsDigitChar(c) == c \in DigitChars

\* the index after the longest run of word characters of s that starts at i
RECURSIVE WordRunEnd(_, _)
WordRunEnd(s, i) == IF IsWordChar(CharAt(s, i)) THEN WordRunEnd(s, i + 1) ELSE i

RECURSIVE FillRunEnd(_, _)
FillRunEnd(s, i) == IF IsFillChar(CharAt(s, i)) THEN FillRunEnd(s, i + 1) ELSE i

RECURSIVE DigitRunEnd(_, _)
DigitRunEnd(s, i) == IF IsDigitChar(CharAt(s, i)) THEN DigitRunEnd(s, i + 1) ELSE i

\* F of the value v, v being computed once
Once(v, F(_)) == CHOOSE r \in {F(x) : x \in {v}} : TRUE

\* no match of toc_line_regex
NoTocMatch == [matched |-> FALSE, table_name |-> <<>>, page_num |-> <<>>]

\* \[?\w+\]? matched at index i of the line: the index after the match, 0
\* when there is none
NameEnd(line, i) ==
    Once(IF CharAt(line, i) = "[" THEN i + 1 ELSE i, LAMBDA first :
        Once(WordRunEnd(line, first), LAMBDA last :
            IF last = first THEN 0 ELSE IF CharAt(line, last) = "]" THEN last + 1 ELSE last))

\* toc_line_regex matched at index i of the line:
\* (\[?\w+\]?\.\[?\w+\]?)\s*[\. ]+\s*(\d+).  No part of the pattern can give
\* back a character to the next one, the blank being the only white space, so
\* every run is the longest one.
TocMatchAt(line, i) ==
    Once(NameEnd(line, i), LAMBDA dot :
        IF dot = 0 \/ CharAt(line, dot) # "." THEN NoTocMatch
        ELSE Once(NameEnd(line, dot + 1), LAMBDA name_end :
            IF name_end = 0 THEN NoTocMatch
            ELSE Once(FillRunEnd(line, name_end), LAMBDA fill_end :
                Once(DigitRunEnd(line, fill_end), LAMBDA digit_end :
                    IF fill_end > name_end /\ digit_end > fill_end
                    THEN [matched |-> TRUE, table_name |-> SubSeq(line, i, name_end - 1), page_num |-> SubSeq(line, fill_end, digit_end - 1)]
                    ELSE NoTocMatch))))

\* toc_line_regex.search(line): the match at the first index that has one
TocLineSearch(line) ==
    IF ~\E k \in DOMAIN line : line[k] = "." THEN NoTocMatch
    ELSE Once({i \in DOMAIN line : TocMatchAt(line, i).matched}, LAMBDA hits :
            IF hits = {} THEN NoTocMatch
            ELSE TocMatchAt(line, CHOOSE i \in hits : \A j \in hits : i <= j))

\* clean_table_name: the name stripped, its brackets removed
CleanTableName(name) ==
    LET NotBracket(c) == c # "[" /\ c # "]"
    IN SelectSeq(Strip(name), NotBracket)

\* the entries of the lines of one page, up to the first line that holds
\* "Views", that line included (pdf_parser.py 188-199)
RECURSIVE TocOfLines(_)
TocOfLines(lines) ==
    IF lines = <<>> THEN <<>>
    ELSE Once(TocLineSearch(Head(lines)), LAMBDA m :
            Once(IF m.matched THEN <<[name |-> CleanTableName(m.table_name), page |-> ToInt(m.page_num)]>> ELSE <<>>, LAMBDA here :
                IF Contains(Head(lines), <<"V", "i", "e", "w", "s">>) THEN here ELSE here \o TocOfLines(Tail(lines))))

\* the entries of the pages range(first, last), in page order
RECURSIVE TocOfPages(_, _, _)
TocOfPages(pages, first, last) ==
    IF first >= last THEN <<>>
    ELSE TocOfLines(PageAt(pages, first)) \o TocOfPages(pages, first + 1, last)

\* entry e put into the sorted list after the entries of its page or less
RECURSIVE InsertByPage(_, _)
InsertByPage(sorted, e) ==
    IF sorted = <<>> THEN <<e>>
    ELSE IF Head(sorted).page <= e.page THEN <<Head(sorted)>> \o InsertByPage(Tail(sorted), e)
    ELSE <<e>> \o sorted

\* SortByPage without the sort: the entries in the order of their lines
SortByPageAsWritten(toc_data) == toc_data

\* toc_data.sort(key=lambda item: item[1]): a stable sort by page
RECURSIVE SortByPage(_)
SortByPage(toc_data) ==
    IF toc_data = <<>> THEN <<>>
    ELSE Once(SortByPage(SubSeq(toc_data, 1, Len(toc_data) - 1)), LAMBDA sorted :
            InsertByPage(sorted, toc_data[Len(toc_data)]))

\* the first page of range(1, min(21, len(pages))) that holds the title, -1
\* when there is none (pdf_parser.py 170-174)
TocStartPage(pages) ==
    LET hits == {i \in 1..(Min(TocSearchEnd, Len(pages)) - 1) :
                    \E k \in DOMAIN PageAt(pages, i) : Contains(PageAt(pages, i)[k], <<"T", "a", "b", "l", "e", " ", "o", "f", " ", "C", "o", "n", "t", "e", "n", "t", "s">>)}
    IN IF hits = {} THEN 0 - 1 ELSE CHOOSE i \in hits : \A j \in hits : i <= j

\* FindAndParseToc with a list that a run uses up: a later call finds the
\* stored list empty
FindAndParseTocUsedUp(pages, cached) ==
    IF ~cached.is_none THEN [returned |-> <<>>, stored |-> TocList(<<>>)]
    ELSE Once(TocStartPage(pages), LAMBDA toc_start_page :
            IF toc_start_page = 0 - 1 THEN [returned |-> <<>>, stored |-> NoToc]
            ELSE Once(TocOfPages(pages, toc_start_page, Min(toc_start_page + MaxTocPages, Len(pages))), LAMBDA toc_data :
                    Once(SortByPage(toc_data), LAMBDA sorted : [returned |-> sorted, stored |-> TocList(sorted)])))

\* PdfTextParser._find_and_parse_toc: [returned, stored], stored being
\* self._toc_entries after the call
FindAndParseToc(pages, cached) ==
    IF ~cached.is_none THEN [returned |-> cached.list, stored |-> cached]
    ELSE Once(TocStartPage(pages), LAMBDA toc_start_page :
            IF toc_start_page = 0 - 1 THEN [returned |-> <<>>, stored |-> NoToc]
            ELSE Once(TocOfPages(pages, toc_start_page, Min(toc_start_page + MaxTocPages, Len(pages))), LAMBDA toc_data :
                    Once(SortByPage(toc_data), LAMBDA sorted : [returned |-> sorted, stored |-> TocList(sorted)])))

---------------------------------------------------------------------------
(* pdf_parser.py: the definition of one table in the text *)

\* table_name.split('.', 1) if '.' in table_name else ('dbo', table_name)
SchemaAndTable(table_name) ==
    LET k == Find(table_name, <<".">>, 0)
    IN IF k < 0 THEN [schema |-> <<"d", "b", "o">>, table |-> table_name]
       ELSE [schema |-> SubSeq(table_name, 1, k), table |-> SubSeq(table_name, k + 2, Len(table_name))]

\* f"[{schema}].[{table}]"
BracketedFormat(n) == <<"[">> \o n.schema \o <<"]", ".", "[">> \o n.table \o <<"]">>

\* f"{schema}.{table}"
PlainFormat(n) == n.schema \o <<".">> \o n.table

\* the line starts the definition of the table (pdf_parser.py 284-291)
FoundMarker(table_name, line) ==
    Once(SchemaAndTable(table_name), LAMBDA n :
        Once(Strip(line), LAMBDA stripped_line :
            Once(Lower(stripped_line), LAMBDA lowered :
                \/ Contains(stripped_line, BracketedFormat(n))
                \/ Contains(stripped_line, PlainFormat(n))
                \/ /\ Contains(lowered, Lower(n.schema))
                   /\ Contains(lowered, Lower(n.table)))))

\* the line names the next table of the TOC (pdf_parser.py 242-246, 310-311);
\* there is no such line for the last entry
FoundNextMarker(toc, current_table_index, line) ==
    /\ current_table_index >= 0
    /\ current_table_index + 1 < Len(toc)
    /\ Once(SchemaAndTable(toc[current_table_index + 2].name), LAMBDA n :
          Once(Strip(line), LAMBDA stripped_line :
              /\ n.table # <<>>
              /\ \/ Contains(stripped_line, BracketedFormat(n))
                 \/ Contains(stripped_line, PlainFormat(n))))

\* _is_header_or_footer: a page-number line, the document title, a copyright
\* line.  The pattern with the page's own number (pdf_parser.py 355) matches
\* only lines the general pattern ^page\s+\d+ matches, the number not being
\* negative from page 2 on.
IsHeaderOrFooter(line, pdf_page_num) ==
    Once(Lower(Strip(line)), LAMBDA line_lower :
        Once(4 + LeadingBlanks(SubSeq(line_lower, 5, Len(line_lower))), LAMBDA after :
            \/ /\ StartsWith(line_lower, <<"p", "a", "g", "e">>)
               /\ after > 4
               /\ IsDigitChar(CharAt(line_lower, after + 1))
            \/ Contains(line_lower, <<"c", "a", "r", "e", "t", "e", "n", "d", " ", "o", "l", "t", "p", " ", "d", "b", " ", "d", "a", "t", "a", " ", "d", "i", "c", "t", "i", "o", "n", "a", "r", "y">>)
            \/ Contains(line_lower, <<"c", "o", "p", "y", "r", "i", "g", "h", "t">>)))

\* the scan before any line is read (pdf_parser.py 250-253)
NoScan ==
    [full_text_lines |-> <<>>, definition_started |-> FALSE, definition_ended |-> FALSE, actual_start_page_idx |-> 0 - 1]

\* the lines of one page, read from line k on (pdf_parser.py 278-321)
RECURSIVE ScanLines(_, _, _, _, _, _)
ScanLines(scan, toc, idx, page_lines, k, current_page_idx) ==
    IF k > Len(page_lines) THEN scan
    ELSE LET line == page_lines[k]
         IN IF ~scan.definition_started
            THEN IF FoundMarker(toc[idx + 1].name, line)
                 THEN ScanLines([scan EXCEPT !.definition_started = TRUE,
                                             !.actual_start_page_idx = current_page_idx,
                                             !.full_text_lines = Append(@, line)],
                                toc, idx, page_lines, k + 1, current_page_idx)
                 ELSE ScanLines(scan, toc, idx, page_lines, k + 1, current_page_idx)
            ELSE IF FoundNextMarker(toc, idx, line)
                 THEN [scan EXCEPT !.definition_ended = TRUE]
                 ELSE IF IsHeaderOrFooter(line, current_page_idx)
                 THEN ScanLines(scan, toc, idx, page_lines, k + 1, current_page_idx)
                 ELSE ScanLines([scan EXCEPT !.full_text_lines = Append(@, line)],
                                toc, idx, page_lines, k + 1, current_page_idx)

\* the pages range(current_page_idx, search_end) (pdf_parser.py 260-333)
RECURSIVE ScanPages(_, _, _, _, _, _, _)
ScanPages(scan, pages, toc, idx, current_page_idx, search_end, file_page_idx) ==
    IF current_page_idx >= search_end THEN scan
    ELSE Once(ScanLines(scan, toc, idx, PageAt(pages, current_page_idx), 1, current_page_idx), LAMBDA after :
            IF after.definition_ended THEN after
            ELSE IF after.definition_started /\ current_page_idx >= file_page_idx + MaxPagesPerTableDef
            THEN after
            ELSE ScanPages(after, pages, toc, idx, current_page_idx + 1, search_end, file_page_idx))

\* the result (None, None), with the warning printed before it is returned
\* (pdf_parser.py 231, 336, 340)
NotFound(warning) == [found |-> FALSE, text |-> <<>>, actual_page |-> 0 - 1, warnings |-> <<warning>>]

\* PdfTextParser._extract_table_definition_section(table_name, doc_page_num,
\* current_table_index), the two first being those of entry idx of the TOC;
\* the text is returned as its lines, with the warnings the call printed
ExtractTableDefinitionSection(pages, toc, idx) ==
    Once(toc[idx + 1].page + PdfPageOffset, LAMBDA file_page_idx :
        IF file_page_idx >= Len(pages) THEN NotFound("page out of range")
        ELSE Once(ScanPages(NoScan, pages, toc, idx, Max(0, file_page_idx - SearchRange), Min(Len(pages), file_page_idx + SearchRange + 1), file_page_idx), LAMBDA scan :
                IF ~scan.definition_started THEN NotFound("start marker not found")
                ELSE IF scan.full_text_lines = <<>> THEN NotFound("no content collected")
                ELSE [found |-> TRUE, text |-> scan.full_text_lines, actual_page |-> scan.actual_start_page_idx, warnings |-> <<>>]))

---------------------------------------------------------------------------
(* pdf_parser.py: the sections of a definition, and parse() *)

\* the four section names, in the order of next_section_markers
SectionNames == <<<<"C", "o", "l", "u", "m", "n", "s">>, <<"I", "n", "d", "e", "x", "e", "s">>, <<"F", "o", "r", "e", "i", "g", "n", " ", "K", "e", "y", "s">>, <<"C", "o", "m", "p", "u", "t", "e", "d", " ", "C", "o", "l", "u", "m", "n", "s">>>>

\* the line consists of the section name alone, letter case aside:
\* ^\s*name\s*$ with re.IGNORECASE
IsSectionLine(line, name) == Lower(Strip(line)) = Lower(name)

\* the marker ends the section of that name: the markers that hold the name of
\* the section itself are passed over (pdf_parser.py 381-384)
EndsSection(line, name) ==
    \E k \in DOMAIN SectionNames :
        /\ ~Contains(Lower(SectionNames[k]), Lower(name))
        /\ IsSectionLine(line, SectionNames[k])

\* s.lstrip()
LStrip(s) == SubSeq(s, LeadingBlanks(s) + 1, Len(s))

\* s.rstrip()
RStrip(s) ==
    LET idx == {i \in DOMAIN s : s[i] # " "}
    IN IF idx = {} THEN <<>> ELSE SubSeq(s, 1, CHOOSE i \in idx : \A j \in idx : j <= i)

\* text.strip() on a text given as its lines: the blank lines at both ends
\* dropped, the first line stripped on its left, the last on its right
StripLines(lines) ==
    LET idx == {i \in DOMAIN lines : Strip(lines[i]) # <<>>}
        first == CHOOSE i \in idx : \A j \in idx : i <= j
        last == CHOOSE i \in idx : \A j \in idx : j <= i
        kept == SubSeq(lines, first, last)
    IN IF idx = {} THEN <<>>
       ELSE [i \in DOMAIN kept |->
                IF i = 1 /\ i = Len(kept) THEN Strip(kept[i])
                ELSE IF i = 1 THEN LStrip(kept[i])
                ELSE IF i = Len(kept) THEN RStrip(kept[i])
                ELSE kept[i]]

\* PdfTextParser._parse_section(name, definition_text) on the lines
\* of the text: [is_none, lines]
ParseSection(name, definition_lines) ==
    LET starts == {i \in DOMAIN definition_lines : IsSectionLine(definition_lines[i], name)}
        start == CHOOSE i \in starts : \A j \in starts : i <= j
        ends == {i \in DOMAIN definition_lines : i > start /\ EndsSection(definition_lines[i], name)}
        end == IF ends = {} THEN Len(definition_lines) + 1 ELSE CHOOSE i \in ends : \A j \in ends : i <= j
    IN IF starts = {} THEN [is_none |-> TRUE, lines |-> <<>>]
       ELSE [is_none |-> FALSE, lines |-> StripLines(SubSeq(definition_lines, start + 1, end - 1))]

\* the four lists parse() gets for a definition (pdf_parser.py 93-96).  Each
\* parser returns [] for a section _parse_section finds absent or empty
\* (pdf_parser.py 405-407, 544-546, 648-650, 734-736); of the four sections
\* the definitions of the model hold the Indexes section only.
ParseDefinition(definition_lines) ==
    Once(ParseSection(<<"I", "n", "d", "e", "x", "e", "s">>, definition_lines), LAMBDA indexes_text :
        SectionOf(<<>>, IF indexes_text.is_none \/ indexes_text.lines = <<>> THEN <<>> ELSE ParseIndexes(indexes_text.lines), <<>>, <<>>, PdfName))

\* drift_counts[drift] += 1, the count starting at 0 (pdf_parser.py 84-86)
CountDrift(drift_counts, drift) ==
    [d \in (DOMAIN drift_counts) \cup {drift} |->
        (IF d \in DOMAIN drift_counts THEN drift_counts[d] ELSE 0) + (IF d = drift THEN 1 ELSE 0)]

\* the drift of a table found on page actual_page (pdf_parser.py 79-80)
DriftOf(doc_page_num, actual_page) == actual_page - (doc_page_num + PdfPageOffset - 1)

\* the statistics after a table found on page actual_page (pdf_parser.py 78-89)
RecordDrift(stats, table_name, doc_page_num, actual_page) ==
    LET expected_page_idx == doc_page_num + PdfPageOffset - 1
        drift == DriftOf(doc_page_num, actual_page)
    IN IF drift = 0 THEN stats
       ELSE [stats EXCEPT !.tables_with_drift = @ + 1,
                          !.drift_counts = CountDrift(@, drift),
                          !.drifted_tables = Append(@, <<table_name, expected_page_idx + 1, actual_page + 1, drift>>)]

\* result[table_name] = section
PutSection(res, table_name, section) ==
    [t \in (DOMAIN res) \cup {table_name} |-> IF t = table_name THEN section ELSE res[t]]

\* the run after an entry whose definition was not found: its log line
\* (pdf_parser.py 73-75)
LoggedNotFound(acc, e, d) ==
    [acc EXCEPT !.log = Append(@, [table_name |-> e.name, found |-> FALSE, actual_page |-> 0 - 1, parsed |-> FALSE, text |-> <<>>, warnings |-> d.warnings])]

\* the run after an entry whose definition d was found: the drift recorded,
\* the definition parsed and put in the result (pdf_parser.py 77-111)
LoggedParsed(acc, e, d) ==
    [result |-> PutSection(acc.result, e.name, ParseDefinition(d.text)),
     stats |-> RecordDrift(acc.stats, e.name, e.page, d.actual_page),
     log |-> Append(acc.log, [table_name |-> e.name, found |-> TRUE, actual_page |-> d.actual_page, parsed |-> TRUE, text |-> d.text, warnings |-> d.warnings])]

\* ParseLoop with "break" for "continue": the loop ends at the first table
\* that is not found
RECURSIVE ParseLoopStops(_, _, _, _)
ParseLoopStops(acc, pages, toc, idx) ==
    IF idx >= Len(toc) THEN acc
    ELSE Once(ExtractTableDefinitionSection(pages, toc, idx), LAMBDA d :
            IF ~d.found
            THEN LoggedNotFound(acc, toc[idx + 1], d)
            ELSE Once(LoggedParsed(acc, toc[idx + 1], d), LAMBDA next : ParseLoopStops(next, pages, toc, idx + 1)))

\* the loop of parse() from entry idx on (pdf_parser.py 65-114); the log
\* holds, for each entry, what the loop knows about it: its name, whether
\* its definition was found, on which page, whether it was parsed, the lines
\* of the text the scanner returned for it and the warnings the scanner
\* printed
RECURSIVE ParseLoop(_, _, _, _)
ParseLoop(acc, pages, toc, idx) ==
    IF idx >= Len(toc) THEN acc
    ELSE Once(ExtractTableDefinitionSection(pages, toc, idx), LAMBDA d :
            Once(IF d.found THEN LoggedParsed(acc, toc[idx + 1], d) ELSE LoggedNotFound(acc, toc[idx + 1], d), LAMBDA next :
                ParseLoop(next, pages, toc, idx + 1)))

\* PdfTextParser.parse(): what it returns, the TOC and the statistics it
\* leaves on the parser, and its log
ParseText(pages, cached, stats) ==
    Once(FindAndParseToc(pages, cached).stored, LAMBDA toc :
        IF toc.is_none \/ toc.list = <<>>
        THEN [result |-> <<>>, toc_entries |-> toc, stats |-> stats, log |-> <<>>]
        ELSE Once(ParseLoop([result |-> <<>>, stats |-> [stats EXCEPT !.total_tables = Len(toc.list)], log |-> <<>>], pages, toc.list, 0), LAMBDA done :
                [result |-> done.result, toc_entries |-> toc, stats |-> done.stats, log |-> done.log]))

---------------------------------------------------------------------------
(* the documents the text parser is run on *)

\* most entry lines of a table of contents
MaxTocLines == 2

TableOrd == <<"d", "b", "o", ".", "O", "r", "d">>

TableUsr == <<"d", "b", "o", ".", "U", "s", "r">>

TextTables == {TableOrd, TableUsr}

\* the pages after the table of contents, which is on page 1
ContentPages == 2..7

\* the pages the table of contents declares: with 1 the search window holds
\* the table of contents, with 2 it is whole and the document has one page
\* after it, with 6 its centre is past the last page
DeclaredPages == {1, 2, 6}

\* the line of the table of contents for table t on page p, the name of
\* dbo.Ord in brackets
TocLine(t, p) ==
    (IF t = TableOrd THEN BracketedFormat(SchemaAndTable(t)) ELSE t) \o <<" ", ".", ".", " ">> \o <<Digits[p + 1]>>

\* the heading of a table's definition, in brackets for dbo.Ord
HeadingLine(t) == IF t = TableOrd THEN BracketedFormat(SchemaAndTable(t)) ELSE t

\* the lines under the heading on the page of the heading: the header of an
\* Indexes section for dbo.Ord
BodyLines(t) ==
    IF t = TableOrd THEN <<<<"I", "n", "d", "e", "x", "e", "s">>>>
    ELSE <<<<"C", "r", "e", "a", "t", "e", "d", " ", "2", "0", "2", "0">>>>

\* what is left of the page marker "--- Page k ---" at the head of page k
MarkerRest(k) == <<Digits[k + 1]>> \o <<" ", "-", "-", "-">>

\* the footer of page k
FooterLine(k) == <<"P", "a", "g", "e", " ">> \o <<Digits[k + 1]>>

\* the lines of the entries from the i-th on
TocLines(entries, i) == [k \in 1..(Len(entries) - i + 1) |-> TocLine(entries[k + i - 1].name, entries[k + i - 1].page)]

\* the lines of a definition that are on the page after its heading: the
\* rows of the Indexes section of dbo.Ord
ContinuedLines(t) ==
    IF t = TableOrd THEN <<<<"N", "a", "m", "e", " ", " ", "K", "e", "y", " ", "C", "o", "l", "u", "m", "n", "s", " ", " ", "U", "n", "i", "q", "u", "e">>, <<"P", "K", "_", "O", "r", "d", " ", " ", "I", "d">>>>
    ELSE <<>>

\* the definitions that start on page k, that of dbo.Ord first, then the
\* lines of the definition of dbo.Ord that goes on from page k - 1
Definitions(k, ord_page, usr_page) ==
    (IF ord_page = k THEN <<HeadingLine(TableOrd)>> \o BodyLines(TableOrd) ELSE <<>>)
        \o (IF usr_page = k THEN <<HeadingLine(TableUsr)>> \o BodyLines(TableUsr) ELSE <<>>)
        \o (IF ord_page # 0 /\ ord_page + 1 = k THEN ContinuedLines(TableOrd) ELSE <<>>)

\* the text of a document, split at "--- Page ": nothing before the first
\* marker, the table of contents on page 1, on page 2 too from its second
\* entry on when it is split, the heading "Views" after its first entry
\* when it has one, then the content pages
Document(entries, split, views, ord_page, usr_page) ==
    LET toc_page == <<MarkerRest(1), <<"T", "a", "b", "l", "e", " ", "o", "f", " ", "C", "o", "n", "t", "e", "n", "t", "s">>>>
                        \o TocLines(SubSeq(entries, 1, 1), 1)
                        \o (IF views THEN <<<<"V", "i", "e", "w", "s">>>> ELSE <<>>)
                        \o (IF split THEN <<>> ELSE TocLines(entries, 2))
        Content(k) == <<MarkerRest(k)>>
                        \o (IF split /\ k = 2 THEN TocLines(entries, 2) ELSE <<>>)
                        \o Definitions(k, ord_page, usr_page)
                        \o <<FooterLine(k)>>
    IN <<<<>>, toc_page>> \o [i \in 1..Cardinality(ContentPages) |-> Content(i + 1)]

\* the entries a table of contents may hold
TocEntries == [name : TextTables, page : DeclaredPages]

\* the tables of contents of 1 to MaxTocLines lines
TocChoices == UNION {[1..n -> TocEntries] : n \in 1..MaxTocLines}

\* the page the definition of dbo.Ord starts on, 0 when the document does
\* not define the table: for a table declared on page 2 the first, the
\* middle and the last page of its search window
OrdStartPages == {0, 2, 4, 6}

\* the page the definition of dbo.Usr starts on, 0 for none
UsrStartPages == {0, 4}

InitText ==
    /\ pc = "text_ready"
    /\ \E entries \in TocChoices, split \in BOOLEAN, views \in BOOLEAN, ord_page \in OrdStartPages, usr_page \in UsrStartPages :
          text_pages = Document(entries, split, views, ord_page, usr_page)
    /\ toc_entries = NoToc
    /\ page_drift_stats = NoDriftStats
    /\ parse_returns = <<>>
    /\ parse_log = <<>>
    /\ MergeIdle
    /\ IndexIdle
    /\ ColumnIdle
    /\ CliIdle
    /\ SectionIdle
    /\ DomIdle
    /\ LoadIdle

\* pdf_parser.parse() (cli.py 93), called on a new parser and once more on
\* the same parser
Parse ==
    /\ pc \in {"text_ready", "text_parsed"}
    /\ \E r \in {ParseText(text_pages, toc_entries, page_drift_stats)} :
          /\ toc_entries' = r.toc_entries
          /\ page_drift_stats' = r.stats
          /\ parse_returns' = Append(parse_returns, r.result)
          /\ parse_log' = r.log
    /\ pc' = IF pc = "text_ready" THEN "text_parsed" ELSE "text_parsed_again"
    /\ UNCHANGED text_pages
    /\ UNCHANGED merge_vars
    /\ UNCHANGED index_vars
    /\ UNCHANGED column_vars
    /\ UNCHANGED cli_vars
    /\ UNCHANGED section_vars
    /\ UNCHANGED dom_vars
    /\ UNCHANGED load_vars

NextText == Parse

SpecText == InitText /\ [][NextText]_vars

---------------------------------------------------------------------------
(* claims about the text parser *)

\* parse() has run on the document
TextParsed == pc \in {"text_parsed", "text_parsed_again"}

\* the entries as the lines of the document give them, before any sort
EntriesAsWritten == TocOfPages(text_pages, 1, Len(text_pages))

\* the list is in ascending order of page
SortedByPage(list) == \A i, j \in DOMAIN list : i < j => list[i].page <= list[j].page

\* C11: the list of TOC entries the text parser builds is sorted by declared
\* page, ascending, whatever the order of the entry lines in the text and
\* whichever TOC page they are on.
C11_TocSortedByPage ==
    TextParsed /\ ~toc_entries.is_none => SortedByPage(toc_entries.list)

\* a table of contents over two pages whose lines are not in page order
C11_Witness ==
    /\ TextParsed
    /\ ~toc_entries.is_none
    /\ ~SortedByPage(EntriesAsWritten)
    /\ TocOfLines(PageAt(text_pages, 1)) # <<>>
    /\ TocOfLines(PageAt(text_pages, 2)) # <<>>
    /\ Len(toc_entries.list) = Len(EntriesAsWritten)

\* C12: no table name is twice in the list of TOC entries, a name matched on
\* several TOC lines being kept once, so that a run processes each table at
\* most once.
C12_TocNamesUnique ==
    TextParsed /\ ~toc_entries.is_none =>
        /\ \A i, j \in DOMAIN toc_entries.list :
              toc_entries.list[i].name = toc_entries.list[j].name => i = j
        /\ \A i, j \in DOMAIN parse_log :
              parse_log[i].table_name = parse_log[j].table_name => i = j

\* the centre of the search window of a TOC entry: declared page + offset
WindowCentre(e) == e.page + PdfPageOffset

\* the pages of the search window of a TOC entry that the document has
WindowPages(e) ==
    {p \in (WindowCentre(e) - SearchRange)..(WindowCentre(e) + SearchRange) : p >= 0 /\ p < Len(text_pages)}

\* the entries of the TOC whose definition the latest parse() found
FoundEntries == {i \in DOMAIN parse_log : parse_log[i].found}

Abs(n) == IF n < 0 THEN 0 - n ELSE n

\* C13: the drift recorded for a table that was found is the page it was
\* found on minus the centre of its search window (declared page + offset):
\* 0, and not counted as drifted, for a table found on the centre, +k for one
\* found k pages after it, and never more than the search radius either way.
C13_DriftFromWindowCentre ==
    pc = "text_parsed" =>
        /\ \A i \in FoundEntries :
              /\ DriftOf(toc_entries.list[i].page, parse_log[i].actual_page)
                    = parse_log[i].actual_page - WindowCentre(toc_entries.list[i])
              /\ Abs(DriftOf(toc_entries.list[i].page, parse_log[i].actual_page)) <= SearchRange
        /\ page_drift_stats.tables_with_drift
              = Cardinality({i \in FoundEntries : parse_log[i].actual_page # WindowCentre(toc_entries.list[i])})

\* some line of a page of the entry's search window starts the definition
MarkerInWindow(e) ==
    \E p \in WindowPages(e) : \E k \in DOMAIN PageAt(text_pages, p) :
        FoundMarker(e.name, PageAt(text_pages, p)[k])

\* C14: for a TOC entry the scanner returns (None, None) exactly when no line
\* of any page of its search window that the document has starts the table's
\* definition; when some line does, a text and a page are returned.
C14_NoneIffNoMarkerInWindow ==
    TextParsed =>
        \A i \in DOMAIN parse_log : parse_log[i].found <=> MarkerInWindow(toc_entries.list[i])

\* C15: parse() called twice over the same text, on the same parser, returns
\* the same tables with the same records in the same order both times.
C15_ParseTwiceSame ==
    pc = "text_parsed_again" => parse_returns[2] = parse_returns[1]

\* a second run that returns a table with an index record, on a parser whose
\* first run left drift statistics
C15_Witness ==
    /\ pc = "text_parsed_again"
    /\ \E t \in DOMAIN parse_returns[2] : parse_returns[2][t].indexes # <<>>
    /\ page_drift_stats.tables_with_drift >= 2
    /\ Len(toc_entries.list) >= 2

----------------------------------------------------------------------------
(* The command line: main and extract_schema of cli.py, for a run that finds
   no cached result. *)

\* what either parser returns for the one table of the document: no column or
\* one column; the DOM parser returns no table without data
\* (html_parser.py 114-117)
CliItemLists == {<<>>} \cup {<<item>> : item \in Items}

\* the process is started with or without --prefer-pdf (cli.py 147-149); the
\* two parsers of extract_schema return pdf_results and html_results
\* (cli.py 92-97)
InitCli ==
    /\ pc = "cli_ready"
    /\ args_prefer_pdf \in BOOLEAN
    /\ prefer_html = TRUE
    /\ \E p \in CliItemLists, h \in CliItemLists :
          /\ pdf_data = [t \in {TableOrders} |-> SectionWith("columns", p, <<>>, PdfName)]
          /\ html_data = [t \in (IF h = <<>> THEN {} ELSE {TableOrders}) |-> SectionWith("columns", h, <<>>, HtmlName)]
    /\ result = EmptyResult
    /\ raised = ""
    /\ origins = <<>>
    /\ IndexIdle
    /\ ColumnIdle
    /\ TextIdle
    /\ SectionIdle
    /\ DomIdle
    /\ LoadIdle

\* the preference main passes on to extract_schema: main computes
\* prefer_html = not args.prefer_pdf (cli.py 155) and calls
\* extract_schema(pdf_path, out_path, force) without it (158-162), where the
\* merger is built as SchemaMerger(prefer_html=True) (102)
MergerPreference(prefer_pdf) == TRUE

\* main: parse the arguments, run extract_schema, exit with 2 on an exception
Main ==
    /\ pc = "cli_ready"
    /\ prefer_html' = MergerPreference(args_prefer_pdf)
    /\ LET m == MergeResult(pdf_data, html_data, prefer_html')
       IN /\ result' = IF m.raised THEN result ELSE m.result
          /\ raised' = IF m.raised THEN "AttributeError" ELSE ""
          /\ pc' = IF m.raised THEN "cli_exit_2" ELSE "cli_done"
          /\ origins' = IF m.raised THEN origins ELSE MergeOrigins(pdf_data, html_data, prefer_html')
    /\ UNCHANGED <<pdf_data, html_data>>
    /\ UNCHANGED index_vars
    /\ UNCHANGED column_vars
    /\ UNCHANGED text_vars
    /\ UNCHANGED cli_vars
    /\ UNCHANGED section_vars
    /\ UNCHANGED dom_vars
    /\ UNCHANGED load_vars

NextCli == Main

SpecCli == InitCli /\ [][NextCli]_vars

\* C17: the source preference follows the command line: a run started with
\* --prefer-pdf merges with the text (PDF) source as primary, so the PDF value
\* is kept on a conflict, and a run without the flag with the DOM (HTML)
\* source as primary.
C17_PreferenceFromCommandLine ==
    pc = "cli_done" =>
        result = MergeResult(pdf_data, html_data, ~args_prefer_pdf).result

\* the row has an Allow Nulls cell and an Identity cell "seed - increment"
HasFlagAndIdentity(row) == row.nullable # <<>> /\ row.identity # <<>>

\* the seed and the increment an Identity cell is written with
SeedOf(row) == Strip(SplitOn(row.identity, "-")[1])

IncrementOf(row) == Strip(SplitOn(row.identity, "-")[2])

\* C18: a column parsed from a data line "name type length nullable-flag
\* seed - increment" has that seed as identity_seed and that increment as
\* identity_increment, and a column parsed from a line without a seed and
\* an increment has neither field.
C18_IdentityFromSeedIncrement ==
    pc = "column_done" =>
        /\ Len(columns) = Len(column_rows)
        /\ \A i \in DOMAIN column_rows :
              /\ HasFlagAndIdentity(column_rows[i]) =>
                    /\ "identity_seed" \in DOMAIN columns[i]
                    /\ "identity_increment" \in DOMAIN columns[i]
                    /\ columns[i].identity_seed = SeedOf(column_rows[i])
                    /\ columns[i].identity_increment = IncrementOf(column_rows[i])
              /\ column_rows[i].identity = <<>> =>
                    /\ "identity_seed" \notin DOMAIN columns[i]
                    /\ "identity_increment" \notin DOMAIN columns[i]

----------------------------------------------------------------------------
(* parse_index_section of core.py (105-167). *)

\* the lines parse_index_section takes for data: those after the first line
\* holding "Key Name" and "Key Columns"; without such a line, those from the
\* first line that starts with PK_, IX_ or UQ_; all lines otherwise
\* (core.py 122-136)
IndexSectionDataLines(lines) ==
    LET header == {i \in DOMAIN lines : Contains(lines[i], <<"K", "e", "y", " ", "N", "a", "m", "e">>) /\ Contains(lines[i], <<"K", "e", "y", " ", "C", "o", "l", "u", "m", "n", "s">>)}
        named == {i \in DOMAIN lines : StartsWith(lines[i], <<"P", "K", "_">>) \/ StartsWith(lines[i], <<"I", "X", "_">>) \/ StartsWith(lines[i], <<"U", "Q", "_">>)}
    IN IF header # {} THEN SubSeq(lines, (CHOOSE i \in header : \A j \in header : i <= j) + 1, Len(lines))
       ELSE IF named # {} THEN SubSeq(lines, CHOOSE i \in named : \A j \in named : i <= j, Len(lines))
       ELSE lines

\* the line is skipped as boilerplate (core.py 142-144)
IndexLineSkipped(line) ==
    \/ line = <<>>
    \/ StartsWith(line, <<"P", "a", "g", "e">>)
    \/ StartsWith(line, <<"C", "o", "p", "y", "r", "i", "g", "h", "t">>)
    \/ Contains(line, <<"O", "L", "T", "P", " ", "D", "B">>)
    \/ Contains(line, <<"P", "r", "o", "p", "r", "i", "e", "t", "a", "r", "y">>)

\* the record of a data line of two parts or more (core.py 146-163)
IndexOfLine(line) ==
    LET parts == SplitWords(line)
        n == Len(parts)
        columns_part == IF n > 3 THEN Join(SubSeq(parts, 2, n - 2), <<" ">>) ELSE parts[2]
        is_unique == IF n > 2 THEN Contains(parts[n - 1], <<"T", "r", "u", "e">>) ELSE FALSE
        fill_factor == IF n > 3 /\ IsDigit(parts[n]) THEN [fill_factor |-> ToInt(parts[n])] ELSE <<>>
    IN [name |-> parts[1], columns |-> columns_part, is_unique |-> PyBool(is_unique)] @@ fill_factor

\* parse_index_section(index_text), index_text split at its line ends
ParseIndexSection(text) ==
    LET kept == LET NotEmpty(l) == Strip(l) # <<>> IN SelectSeq(text, NotEmpty)
        lines == [i \in DOMAIN kept |-> Strip(kept[i])]
        data_lines == IndexSectionDataLines(lines)
        Loop[i \in 0..Len(data_lines)] ==
            IF i = 0 THEN <<>>
            ELSE IF IndexLineSkipped(data_lines[i]) \/ Len(SplitWords(data_lines[i])) < 2
            THEN Loop[i - 1]
            ELSE Append(Loop[i - 1], IndexOfLine(data_lines[i]))
    IN Loop[Len(data_lines)]

----------------------------------------------------------------------------
(* The index tables parse_index_section is run on. *)

SectionIndexNames == {<<"P", "K", "_", "O", "r", "d", "e", "r">>, <<"I", "X", "_", "O">>, <<"U", "Q", "_", "O">>}

\* the Key Columns cell of a row: one column, two columns
SectionKeyColumns == {<<"I", "d">>, <<"O", "r", "d", "e", "r", " ", "I", "d">>, <<"I", "d", ",", "N", "o">>}

SectionUniqueFlags == {<<"T", "r", "u", "e">>, <<"F", "a", "l", "s", "e">>}

\* the Fill Factor cell of a row, <<>> for an empty one
SectionFillFactors == {<<>>, <<"9", "0">>, <<"1", "0", "0">>}

SectionIndexRows ==
    [name : SectionIndexNames, columns : SectionKeyColumns, unique : SectionUniqueFlags, fill_factor : SectionFillFactors]

\* the text line of a row: its non-empty cells, one blank between them
SectionIndexLine(row) ==
    LET NotEmpty(c) == c # <<>>
    IN Join(SelectSeq(<<row.name, row.columns, row.unique, row.fill_factor>>, NotEmpty), <<" ">>)

\* the header line of the sample of tests/test_parsers.py
SectionHeaderLine == <<"K", "e", "y", " ", "N", "a", "m", "e", " ", "K", "e", "y", " ", "C", "o", "l", "u", "m", "n", "s", " ", "U", "n", "i", "q", "u", "e", " ", "F", "i", "l", "l", " ", "F", "a", "c", "t", "o", "r">>

\* the second row of the sample of tests/test_parsers.py
LastSectionIndexRow ==
    [name |-> <<"U", "Q", "_", "O", "r", "d", "e", "r", "N", "a", "m", "e">>, columns |-> <<"N", "a", "m", "e">>, unique |-> <<"T", "r", "u", "e">>, fill_factor |-> <<"8", "0">>]

\* the text of an index table, with or without its header line
IndexSectionText(rows, with_header) ==
    (IF with_header THEN <<SectionHeaderLine>> ELSE <<>>) \o [i \in DOMAIN rows |-> SectionIndexLine(rows[i])]

InitIndexSection ==
    /\ pc = "index_section_ready"
    /\ \E row \in SectionIndexRows, with_header \in BOOLEAN :
          /\ index_rows = <<row, LastSectionIndexRow>>
          /\ index_lines = IndexSectionText(index_rows, with_header)
    /\ indexes = <<>>
    /\ row_data = <<>>
    /\ index_item = None
    /\ MergeIdle
    /\ ColumnIdle
    /\ TextIdle
    /\ CliIdle
    /\ SectionIdle
    /\ DomIdle
    /\ LoadIdle

\* indexes = parse_index_section(index_text)
DoParseIndexSection ==
    /\ pc = "index_section_ready"
    /\ indexes' = ParseIndexSection(index_lines)
    /\ pc' = "index_section_done"
    /\ UNCHANGED <<index_lines, row_data, index_item, index_rows>>
    /\ UNCHANGED merge_vars
    /\ UNCHANGED column_vars
    /\ UNCHANGED text_vars
    /\ UNCHANGED cli_vars
    /\ UNCHANGED section_vars
    /\ UNCHANGED dom_vars
    /\ UNCHANGED load_vars

NextIndexSection == DoParseIndexSection

SpecIndexSection == InitIndexSection /\ [][NextIndexSection]_vars

\* C19: parse_index_section returns one record for each data line "name
\* key-columns unique-flag [fill-factor]" after the header, whose name is the
\* line's first token, whose is_unique is true exactly when the line's unique
\* flag is True, and whose fill_factor is the line's trailing integer when
\* there is one, with or without a fill factor in the line.
C19_IndexRecordPerLine ==
    pc = "index_section_done" =>
        /\ Len(indexes) = Len(index_rows)
        /\ \A i \in DOMAIN index_rows :
              /\ indexes[i].name = index_rows[i].name
              /\ indexes[i].is_unique = PyBool(index_rows[i].unique = <<"T", "r", "u", "e">>)
              /\ index_rows[i].fill_factor # <<>> =>
                    /\ "fill_factor" \in DOMAIN indexes[i]
                    /\ indexes[i].fill_factor = ToInt(index_rows[i].fill_factor)

----------------------------------------------------------------------------
(* The caller of merge() changing the merged output afterwards: a change to
   an object of the result shows in an input exactly when the two are the
   same object. *)

InitAlias ==
    /\ pc = "ready"
    /\ prefer_html \in BOOLEAN
    /\ \E p \in CliItemLists, h \in CliItemLists, pdf_has \in BOOLEAN :
          /\ pdf_has \/ (p = <<>> /\ h # <<>>)
          /\ pdf_data = [t \in (IF pdf_has THEN {TableOrders} ELSE {}) |-> SectionWith("columns", p, <<>>, PdfName)]
          /\ html_data = [t \in (IF h = <<>> THEN {} ELSE {TableOrders}) |-> SectionWith("columns", h, <<>>, HtmlName)]
    /\ result = EmptyResult
    /\ raised = ""
    /\ origins = <<>>
    /\ IndexIdle
    /\ ColumnIdle
    /\ TextIdle
    /\ CliIdle
    /\ SectionIdle
    /\ DomIdle
    /\ LoadIdle

\* the value the caller writes
WrittenValue == Str(<<"x">>)

\* item["data_type"] = "x"
WithWrittenType(item) ==
    [f \in (DOMAIN item) \cup {"data_type"} |-> IF f = "data_type" THEN WrittenValue ELSE item[f]]

\* the record the caller appends
AppendedItem == [name |-> Str(<<"x">>)]

\* the input of one source after a write to the object ref: changed when the
\* object is the source's
WrittenThrough(data, source, ref, item) ==
    IF ref.source = source THEN [data EXCEPT ![ref.table][ref.cat][ref.item] = item] ELSE data

\* the input of one source after an append to the list ref
AppendedThrough(data, source, ref, item) ==
    IF ref.source = source THEN [data EXCEPT ![ref.table][ref.cat] = Append(@, item)] ELSE data

\* result["tables"][t][cat][i]["data_type"] = "x", after merge() returned
WriteOutputItem ==
    /\ pc = "done"
    /\ \E t \in DOMAIN result.tables, cat \in CategorySet :
          \E i \in DOMAIN result.tables[t][cat] :
             LET item == WithWrittenType(result.tables[t][cat][i])
                 ref == origins[t][cat].items[i]
             IN /\ result' = [result EXCEPT !.tables[t][cat][i] = item]
                /\ pdf_data' = WrittenThrough(pdf_data, PdfName, ref, item)
                /\ html_data' = WrittenThrough(html_data, HtmlName, ref, item)
    /\ pc' = "output_written"
    /\ UNCHANGED <<prefer_html, raised, origins>>
    /\ UNCHANGED index_vars
    /\ UNCHANGED column_vars
    /\ UNCHANGED text_vars
    /\ UNCHANGED cli_vars
    /\ UNCHANGED section_vars
    /\ UNCHANGED dom_vars
    /\ UNCHANGED load_vars

\* result["tables"][t][cat].append({"name": "x"}), after merge() returned
AppendToOutputList ==
    /\ pc = "done"
    /\ \E t \in DOMAIN result.tables, cat \in CategorySet :
          LET ref == origins[t][cat].list
          IN /\ result' = [result EXCEPT !.tables[t][cat] = Append(@, AppendedItem)]
             /\ origins' = [origins EXCEPT ![t][cat].items = Append(@, NewObject)]
             /\ pdf_data' = AppendedThrough(pdf_data, PdfName, ref, AppendedItem)
             /\ html_data' = AppendedThrough(html_data, HtmlName, ref, AppendedItem)
    /\ pc' = "output_appended"
    /\ UNCHANGED <<prefer_html, raised>>
    /\ UNCHANGED index_vars
    /\ UNCHANGED column_vars
    /\ UNCHANGED text_vars
    /\ UNCHANGED cli_vars
    /\ UNCHANGED section_vars
    /\ UNCHANGED dom_vars
    /\ UNCHANGED load_vars

NextAlias == Merge \/ WriteOutputItem \/ AppendToOutputList

SpecAlias == InitAlias /\ [][NextAlias]_vars

\* C20: merge() does not change its inputs, and neither does a later change
\* of the merged output: no step of a run, the merge or a write to a record
\* or a list of the result after it, changes pdf_data or html_data, the
\* records of the result being copies.
C20_InputsNeverChanged ==
    [][pdf_data' = pdf_data /\ html_data' = html_data]_vars

\* the caller has written to a record of a table merged from both sources
\* whose record came from the primary source
C20_Witness ==
    /\ pc = "output_written"
    /\ \E t \in (DOMAIN pdf_data) \cap (DOMAIN html_data) :
          /\ result.tables[t].extraction_source = "merged"
          /\ \E i \in DOMAIN result.tables[t].columns :
                /\ result.tables[t].columns[i].data_type = WrittenValue
                /\ i \in DOMAIN PrimaryOf(t).columns
                /\ PrimaryOf(t).columns[i] # result.tables[t].columns[i]
                /\ result.tables[t].columns[i] = WithWrittenType(PrimaryOf(t).columns[i])

\* the start of the definition of entry e: the first line, in page order and
\* then line order, of a page of its search window that starts the definition
StartPositions(e) ==
    {pos \in UNION {{[page |-> p, line |-> k] : k \in DOMAIN PageAt(text_pages, p)} : p \in WindowPages(e)} :
        FoundMarker(e.name, PageAt(text_pages, pos.page)[pos.line])}

IsBefore(a, b) == a.page < b.page \/ (a.page = b.page /\ a.line < b.line)

StartPosition(e) == CHOOSE a \in StartPositions(e) : \A b \in StartPositions(e) : a = b \/ IsBefore(a, b)

\* the last page the safety limit lets the scanner read for entry e: the page
\* MAX_PAGES_PER_TABLE_DEF after the centre of the window (pdf_parser.py 331),
\* the last page of the document if that comes first
LimitPage(e) == Min(Len(text_pages) - 1, WindowCentre(e) + MaxPagesPerTableDef)

\* the lines of the pages p..last from line k of page p on, in reading order
RECURSIVE LinesFrom(_, _, _)
LinesFrom(p, k, last) ==
    IF p > last THEN <<>>
    ELSE SubSeq(PageAt(text_pages, p), k, Len(PageAt(text_pages, p))) \o LinesFrom(p + 1, 1, last)

\* the lines before the first line that names the table after entry i
RECURSIVE UpToNextMarker(_, _)
UpToNextMarker(lines, i) ==
    IF lines = <<>> THEN <<>>
    ELSE IF FoundNextMarker(toc_entries.list, i - 1, Head(lines)) THEN <<>>
    ELSE <<Head(lines)>> \o UpToNextMarker(Tail(lines), i)

NotBoilerplate(line) == ~IsHeaderOrFooter(line, 0)

\* the definition of entry i in full: its start line, then the lines that
\* follow it up to the next table's marker line or the limit page, the
\* header and footer lines left out
DefinitionInFull(i) ==
    LET e == toc_entries.list[i]
        start == StartPosition(e)
        following == LinesFrom(start.page, start.line + 1, LimitPage(e))
    IN <<PageAt(text_pages, start.page)[start.line]>> \o SelectSeq(UpToNextMarker(following, i), NotBoilerplate)

\* C21: once the start line of a table is found on a page of the search
\* window, the lines that follow it are collected across the next pages until
\* a line names the next TOC entry or the page limit is reached: a definition
\* that starts on the last page of the window and goes on on the next page is
\* collected in full, and no line at or after the next table's marker line is
\* collected.
C21_CollectedUntilNextOrLimit ==
    pc = "text_parsed" =>
        \A i \in FoundEntries : parse_log[i].text = DefinitionInFull(i)

\* what holds of the collected lines: they are the first lines of the
\* definition in full, so that no line at or after the next table's marker
\* line is among them
CollectedStartsDefinition ==
    pc = "text_parsed" =>
        \A i \in FoundEntries :
            /\ Len(parse_log[i].text) <= Len(DefinitionInFull(i))
            /\ parse_log[i].text = SubSeq(DefinitionInFull(i), 1, Len(parse_log[i].text))
            /\ \A k \in 2..Len(parse_log[i].text) : ~FoundNextMarker(toc_entries.list, i - 1, parse_log[i].text[k])

\* several lines of the search window of entry e start its definition
AmbiguousMatch(e) == Cardinality(StartPositions(e)) >= 2

\* what holds of an ambiguous match: the definition starts at the first of
\* the matching lines, in page order and then line order
FirstMatchIsStart ==
    pc = "text_parsed" =>
        \A i \in FoundEntries :
            /\ parse_log[i].actual_page = StartPosition(toc_entries.list[i]).page
            /\ parse_log[i].text[1] = PageAt(text_pages, parse_log[i].actual_page)[StartPosition(toc_entries.list[i]).line]

\* C22: when two or more lines of one search window match the start marker of
\* a table, the first match in page order and then line order is taken as the
\* start of the definition, and a warning is logged for the ambiguity.
C22_FirstMatchAndWarning ==
    pc = "text_parsed" =>
        \A i \in FoundEntries :
            AmbiguousMatch(toc_entries.list[i]) =>
                /\ parse_log[i].actual_page = StartPosition(toc_entries.list[i]).page
                /\ parse_log[i].text[1] = PageAt(text_pages, parse_log[i].actual_page)[StartPosition(toc_entries.list[i]).line]
                /\ parse_log[i].warnings # <<>>

\* the pages _find_and_parse_toc reads as the table of contents: from the
\* page of the title on, MaxTocPages pages at most
LastTocPage == Min(TocStartPage(text_pages) + MaxTocPages, Len(text_pages)) - 1

\* the lines of the table of contents, in reading order
AllTocLines == LinesFrom(TocStartPage(text_pages), 1, LastTocPage)

\* C23: once a line that holds "Views" has been read in the table of
\* contents, no line after it, on the same page or on a later page, gives an
\* entry of the TOC list: the list holds the entries of the lines up to that
\* line and no other.
C23_NoEntryAfterViews ==
    TextParsed /\ ~toc_entries.is_none =>
        toc_entries.list = SortByPage(TocOfLines(AllTocLines))

\* what holds of the "Views" line: the lines after it on its own page give no
\* entry, every other entry line of the pages read gives one
NoEntryAfterViewsOnPage ==
    TextParsed /\ ~toc_entries.is_none =>
        Len(toc_entries.list) =
            Cardinality({pos \in UNION {{[page |-> p, line |-> k] : k \in DOMAIN PageAt(text_pages, p)} : p \in TocStartPage(text_pages)..LastTocPage} :
                            /\ TocLineSearch(PageAt(text_pages, pos.page)[pos.line]).matched
                            /\ \A k \in 1..(pos.line - 1) : ~Contains(PageAt(text_pages, pos.page)[k], <<"V", "i", "e", "w", "s">>)})

---------------------------------------------------------------------------
(* pdf_parser.py: _parse_section on the text of a definition *)

\* most sections of a definition text
MaxSections == 3

\* the sections a text holds, in their order in the text: no section twice
SectionOrders ==
    UNION {{f \in [1..n -> DOMAIN SectionNames] : \A i, j \in 1..n : f[i] = f[j] => i = j} : n \in 0..MaxSections}

\* the header line of section k: the name alone, or in lower case between
\* blanks
SectionHeader(k, styled) ==
    IF styled THEN <<" ">> \o Lower(SectionNames[k]) \o <<" ", " ">> ELSE SectionNames[k]

\* the line under the header of section k
SectionRow(k) ==
    IF k = 1 THEN <<"I", "d", " ", " ", "i", "n", "t">>
    ELSE IF k = 2 THEN <<"P", "K", "_", "O", "r", "d", " ", " ", "I", "d">>
    ELSE IF k = 3 THEN <<"F", "K", "_", "O", "r", "d", "_", "U", "s", "r", " ", " ", "U", "s", "r", "I", "d">>
    ELSE <<"T", "o", "t", "a", "l", " ", " ", "N", "e", "t", " ", "+", " ", "T", "a", "x">>

\* the lines of section k: header and row, a blank line between them and
\* blanks around the row when styled
SectionLines(k, styled) ==
    IF styled THEN <<SectionHeader(k, styled), <<>>, <<" ", " ">> \o SectionRow(k) \o <<" ">>>>
    ELSE <<SectionHeader(k, styled), SectionRow(k)>>

\* the lines of the sections order[i..]
RECURSIVE SectionsFrom(_, _, _)
SectionsFrom(order, i, styled) ==
    IF i > Len(order) THEN <<>>
    ELSE SectionLines(order[i], styled) \o SectionsFrom(order, i + 1, styled)

\* the text of a definition: the heading of the table, then its sections
DefinitionText(order, styled) == <<HeadingLine(TableOrd)>> \o SectionsFrom(order, 1, styled)

InitSection ==
    /\ pc = "section_ready"
    /\ \E k \in DOMAIN SectionNames : section_name = SectionNames[k]
    /\ \E order \in SectionOrders, styled \in BOOLEAN : definition_text = DefinitionText(order, styled)
    /\ section_text = NoSectionText
    /\ MergeIdle
    /\ IndexIdle
    /\ ColumnIdle
    /\ TextIdle
    /\ CliIdle
    /\ DomIdle
    /\ LoadIdle

\* self._parse_section(section_name, definition_text), as _parse_columns,
\* _parse_indexes, _parse_foreign_keys and _parse_computed_columns call it
\* (pdf_parser.py 405, 544, 648, 734)
DoParseSection ==
    /\ pc = "section_ready"
    /\ section_text' = ParseSection(section_name, definition_text)
    /\ pc' = "section_done"
    /\ UNCHANGED <<section_name, definition_text>>
    /\ UNCHANGED merge_vars
    /\ UNCHANGED index_vars
    /\ UNCHANGED column_vars
    /\ UNCHANGED text_vars
    /\ UNCHANGED cli_vars
    /\ UNCHANGED dom_vars
    /\ UNCHANGED load_vars

NextSection == DoParseSection

SpecSection == InitSection /\ [][NextSection]_vars

\* the line consists of the name alone, blanks and letter case aside
ConsistsSolelyOf(line, name) == Lower(Strip(line)) = Lower(name)

\* the lines of definition_text that are headers of the requested section
RequestedHeaders == {i \in DOMAIN definition_text : ConsistsSolelyOf(definition_text[i], section_name)}

FirstRequestedHeader == CHOOSE i \in RequestedHeaders : \A j \in RequestedHeaders : i <= j

\* the lines after the header that are headers of one of the other three
\* sections
OtherHeadersAfter ==
    {i \in DOMAIN definition_text :
        /\ i > FirstRequestedHeader
        /\ \E k \in DOMAIN SectionNames : SectionNames[k] # section_name /\ ConsistsSolelyOf(definition_text[i], SectionNames[k])}

\* the lines between the header and the nearest header of another section,
\* the end of the text when there is none
LinesOfRequestedSection ==
    LET end == IF OtherHeadersAfter = {} THEN Len(definition_text) + 1
               ELSE CHOOSE i \in OtherHeadersAfter : \A j \in OtherHeadersAfter : i <= j
    IN SubSeq(definition_text, FirstRequestedHeader + 1, end - 1)

\* C24: _parse_section returns None when no line consists solely of the
\* requested section name, and otherwise the trimmed text between that header
\* line and the nearest later header line of any of the other three sections,
\* the end of the text if there is none; this for each of the four names, so
\* that the Columns section ends at a "Computed Columns" header that follows
\* it.
C24_SectionBetweenHeaders ==
    pc = "section_done" =>
        section_text = IF RequestedHeaders = {} THEN NoSectionText
                       ELSE [is_none |-> FALSE, lines |-> StripLines(LinesOfRequestedSection)]

\* what holds of the three names other than "Columns"
SectionBetweenHeadersButColumns ==
    pc = "section_done" /\ section_name # SectionNames[1] =>
        section_text = IF RequestedHeaders = {} THEN NoSectionText
                       ELSE [is_none |-> FALSE, lines |-> StripLines(LinesOfRequestedSection)]

---------------------------------------------------------------------------
(* the tiers of the text parsers *)

\* the records the splitting at runs of blanks gives for the rows of a
\* section, a row that does not split in two giving none
RECURSIVE SplitTierRecords(_)
SplitTierRecords(rows) ==
    IF rows = <<>> THEN <<>>
    ELSE (IF Len(SplitRuns(Head(rows))) >= 2 THEN <<WithKeyColumnList(IndexFromParts(SplitRuns(Head(rows))))>> ELSE <<>>)
            \o SplitTierRecords(Tail(rows))

\* the records the pattern gives for rows of which none splits in two
RECURSIVE PatternTierRecords(_)
PatternTierRecords(rows) ==
    IF rows = <<>> THEN <<>>
    ELSE (IF IndexRegexMatch(Head(rows)).matched THEN <<WithKeyColumnList(IndexFromMatch(IndexRegexMatch(Head(rows))))>> ELSE <<>>)
            \o PatternTierRecords(Tail(rows))

\* C25: a text parser tries its tiers in order and stops at the first tier
\* that yields a record: a later tier is applied only if every earlier tier
\* yielded no record for the section, so that the records returned for one
\* section all come from one tier.  For the Indexes section: the records are
\* those of the splitting of the rows when it yields any, those of the
\* pattern otherwise.
C25_RecordsFromOneTier ==
    pc = "text_index_done" =>
        indexes = IF SplitTierRecords(IndexRowsOf(index_lines)) # <<>>
                  THEN SplitTierRecords(IndexRowsOf(index_lines))
                  ELSE PatternTierRecords(IndexRowsOf(index_lines))

\* what holds of the Indexes section: each row gives the record of the
\* splitting when it splits in two, that of the pattern otherwise
RecordsFromTierOfRow ==
    pc = "text_index_done" =>
        /\ Len(indexes) = Len(IndexRowsOf(index_lines))
        /\ \A i \in DOMAIN indexes :
              indexes[i] = IF Len(SplitRuns(IndexRowsOf(index_lines)[i])) >= 2
                           THEN SplitTierRecords(<<IndexRowsOf(index_lines)[i]>>)[1]
                           ELSE PatternTierRecords(<<IndexRowsOf(index_lines)[i]>>)[1]

---------------------------------------------------------------------------
(* html_parser.py: the tables of the HTML document.  The document is the
   sequence of the sibling nodes of its body, each a heading, a table or a
   paragraph; a table is given by the texts of the cells of its rows. *)

HeadingTags == {"h1", "h2", "h3", "h4", "h5", "h6"}

HeadingNode(text) == [name |-> "h2", text |-> text, rows |-> <<>>]

TableNode(rows) == [name |-> "table", text |-> <<>>, rows |-> rows]

ParagraphNode(text) == [name |-> "p", text |-> text, rows |-> <<>>]

\* no match of table_name_pattern
NoNameMatch == [matched |-> FALSE, schema |-> <<>>, table |-> <<>>]

\* table_name_pattern, (\[?(\w+)\]?\.\[?(\w+)\]?), matched at index i of the
\* text (html_parser.py 61)
TableNameMatchAt(text, i) ==
    LET first == IF CharAt(text, i) = "[" THEN i + 1 ELSE i
        schema_end == WordRunEnd(text, first)
        dot == IF CharAt(text, schema_end) = "]" THEN schema_end + 1 ELSE schema_end
        second == IF CharAt(text, dot + 1) = "[" THEN dot + 2 ELSE dot + 1
        table_end == WordRunEnd(text, second)
    IN IF schema_end = first \/ CharAt(text, dot) # "." \/ table_end = second THEN NoNameMatch
       ELSE [matched |-> TRUE, schema |-> SubSeq(text, first, schema_end - 1), table |-> SubSeq(text, second, table_end - 1)]

\* table_name_pattern.search(heading_text): the match at the first index that
\* has one
TableNameSearch(text) ==
    LET hits == {i \in DOMAIN text : TableNameMatchAt(text, i).matched}
    IN IF hits = {} THEN NoNameMatch ELSE TableNameMatchAt(text, CHOOSE i \in hits : \A j \in hits : i <= j)

\* the tables between the heading at index h and the next heading, the end
\* of the document after the last heading (html_parser.py 80-91)
CollectedTables(nodes, h) ==
    LET later == {j \in DOMAIN nodes : j > h /\ nodes[j].name \in HeadingTags}
        stop == IF later = {} THEN Len(nodes) + 1 ELSE CHOOSE j \in later : \A k \in later : j <= k
    IN {j \in (h + 1)..(stop - 1) : nodes[j].name = "table"}

\* ' '.join(cell.get_text(strip=True).lower() for cell in header_cells) for
\* the first row of the table
FirstRowText(table) ==
    IF table.rows = <<>> THEN <<>>
    ELSE Join([i \in DOMAIN table.rows[1] |-> Lower(Strip(table.rows[1][i]))], <<" ">>)

\* HtmlDomParser._classify_html_table for the table at index pos: the
\* category, "None" when the table cannot be classified
ClassifyHtmlTable(nodes, pos) ==
    LET table == nodes[pos]
        heading_text == IF pos > 1 /\ nodes[pos - 1].name \in HeadingTags THEN Lower(Strip(nodes[pos - 1].text)) ELSE <<>>
        row_text == FirstRowText(table)
        header_text == IF heading_text = <<>> /\ table.rows # <<>> /\ table.rows[1] # <<>> THEN row_text ELSE heading_text
    IN IF Contains(header_text, <<"c", "o", "l", "u", "m", "n">>) /\ Contains(header_text, <<"n", "a", "m", "e">>) /\ Contains(header_text, <<"d", "a", "t", "a", " ", "t", "y", "p", "e">>) THEN "columns"
       ELSE IF Contains(header_text, <<"i", "n", "d", "e", "x">>) \/ (Contains(header_text, <<"n", "a", "m", "e">>) /\ Contains(header_text, <<"k", "e", "y", " ", "c", "o", "l", "u", "m", "n", "s">>)) THEN "indexes"
       ELSE IF Contains(header_text, <<"f", "o", "r", "e", "i", "g", "n", " ", "k", "e", "y">>) \/ (Contains(header_text, <<"n", "a", "m", "e">>) /\ Contains(header_text, <<"r", "e", "f", "e", "r", "e", "n", "c", "e", "d">>)) THEN "foreign_keys"
       ELSE IF Contains(header_text, <<"c", "o", "m", "p", "u", "t", "e", "d">>) /\ Contains(header_text, <<"c", "o", "l", "u", "m", "n">>) THEN "computed_columns"
       ELSE IF table.rows = <<>> THEN "None"
       ELSE IF Contains(row_text, <<"c", "o", "l", "u", "m", "n", " ", "n", "a", "m", "e">>) /\ Contains(row_text, <<"d", "a", "t", "a", " ", "t", "y", "p", "e">>) THEN "columns"
       ELSE IF Contains(row_text, <<"i", "n", "d", "e", "x", " ", "n", "a", "m", "e">>) \/ Contains(row_text, <<"k", "e", "y", " ", "c", "o", "l", "u", "m", "n", "s">>) THEN "indexes"
       ELSE IF Contains(row_text, <<"f", "o", "r", "e", "i", "g", "n", " ", "k", "e", "y">>) \/ Contains(row_text, <<"r", "e", "f", "e", "r", "e", "n", "c", "e", "d", " ", "t", "a", "b", "l", "e">>) THEN "foreign_keys"
       ELSE IF Contains(row_text, <<"c", "o", "m", "p", "u", "t", "e", "d">>) /\ Contains(row_text, <<"f", "o", "r", "m", "u", "l", "a">>) THEN "computed_columns"
       ELSE "None"

\* the keys _normalize_row_data reads, with their characters
KeyChars ==
    [column_name |-> <<"c", "o", "l", "u", "m", "n", "_", "n", "a", "m", "e">>, name |-> <<"n", "a", "m", "e">>, data_type |-> <<"d", "a", "t", "a", "_", "t", "y", "p", "e">>, type |-> <<"t", "y", "p", "e">>,
     max_length |-> <<"m", "a", "x", "_", "l", "e", "n", "g", "t", "h">>, length |-> <<"l", "e", "n", "g", "t", "h">>, allow_nulls |-> <<"a", "l", "l", "o", "w", "_", "n", "u", "l", "l", "s">>, null |-> <<"n", "u", "l", "l">>,
     identity |-> <<"i", "d", "e", "n", "t", "i", "t", "y">>, ident |-> <<"i", "d", "e", "n", "t">>, key |-> <<"k", "e", "y">>, index_name |-> <<"i", "n", "d", "e", "x", "_", "n", "a", "m", "e">>,
     key_columns |-> <<"k", "e", "y", "_", "c", "o", "l", "u", "m", "n", "s">>, columns |-> <<"c", "o", "l", "u", "m", "n", "s">>, is_unique |-> <<"i", "s", "_", "u", "n", "i", "q", "u", "e">>, unique |-> <<"u", "n", "i", "q", "u", "e">>,
     index_type |-> <<"i", "n", "d", "e", "x", "_", "t", "y", "p", "e">>, foreign_key_name |-> <<"f", "o", "r", "e", "i", "g", "n", "_", "k", "e", "y", "_", "n", "a", "m", "e">>, column |-> <<"c", "o", "l", "u", "m", "n">>,
     referenced_table |-> <<"r", "e", "f", "e", "r", "e", "n", "c", "e", "d", "_", "t", "a", "b", "l", "e">>, referenced_columns |-> <<"r", "e", "f", "e", "r", "e", "n", "c", "e", "d", "_", "c", "o", "l", "u", "m", "n", "s">>,
     referenced_column |-> <<"r", "e", "f", "e", "r", "e", "n", "c", "e", "d", "_", "c", "o", "l", "u", "m", "n">>, update_rule |-> <<"u", "p", "d", "a", "t", "e", "_", "r", "u", "l", "e">>, delete_rule |-> <<"d", "e", "l", "e", "t", "e", "_", "r", "u", "l", "e">>,
     formula |-> <<"f", "o", "r", "m", "u", "l", "a">>, definition |-> <<"d", "e", "f", "i", "n", "i", "t", "i", "o", "n">>, is_persisted |-> <<"i", "s", "_", "p", "e", "r", "s", "i", "s", "t", "e", "d">>, persisted |-> <<"p", "e", "r", "s", "i", "s", "t", "e", "d">>]

\* headers[i].replace(' ', '_')
HeaderName(header) == [i \in DOMAIN header |-> IF header[i] = " " THEN "_" ELSE header[i]]

\* row_data of a row (html_parser.py 219-223), on the keys that are read: the
\* text of the last cell under a header of that name
RowData(headers, cells) ==
    LET Under(k) == {i \in DOMAIN cells : i <= Len(headers) /\ HeaderName(headers[i]) = KeyChars[k]}
    IN [k \in {k \in DOMAIN KeyChars : Under(k) # {}} |-> Strip(cells[CHOOSE i \in Under(k) : \A j \in Under(k) : j <= i])]

\* _normalize_row_data(row_data, "columns")
NormalizeColumnRow(row) ==
    LET name == RowGetOr(row, "column_name", "name")
    IN IF ~TruthyValue(name) THEN None
       ELSE [name |-> name.v,
             data_type |-> RowGetOr(row, "data_type", "type"),
             max_length |-> RowGetOr(row, "max_length", "length"),
             allow_nulls |-> ParseBoolean(RowGetOr(row, "allow_nulls", "null")),
             identity |-> ParseBoolean(RowGetOr(row, "identity", "ident")),
             key |-> RowGet(row, "key")]

\* [col.strip() for col in value.split(',')]
StrippedList(value) == [i \in DOMAIN SplitOn(value, ",") |-> Strip(SplitOn(value, ",")[i])]

\* _normalize_row_data(row_data, "foreign_keys")
NormalizeForeignKeyRow(row) ==
    LET name == RowGetOr(row, "name", "foreign_key_name")
        fk_data == [name |-> name.v,
                    columns |-> RowGetOr(row, "columns", "column"),
                    referenced_table |-> RowGet(row, "referenced_table"),
                    referenced_columns |-> RowGetOr(row, "referenced_columns", "referenced_column"),
                    update_rule |-> RowGet(row, "update_rule"),
                    delete_rule |-> RowGet(row, "delete_rule")]
        with_columns == IF TruthyValue(fk_data.columns) THEN fk_data @@ [column_list |-> StrippedList(fk_data.columns.v)] ELSE fk_data
    IN IF ~TruthyValue(name) THEN None
       ELSE IF TruthyValue(fk_data.referenced_columns)
       THEN with_columns @@ [referenced_column_list |-> StrippedList(fk_data.referenced_columns.v)]
       ELSE with_columns

\* _normalize_row_data(row_data, "computed_columns")
NormalizeComputedRow(row) ==
    LET name == RowGetOr(row, "column_name", "name")
    IN IF ~TruthyValue(name) THEN None
       ELSE [name |-> name.v,
             formula |-> RowGetOr(row, "formula", "definition"),
             data_type |-> RowGetOr(row, "data_type", "type"),
             is_persisted |-> ParseBoolean(RowGetOr(row, "is_persisted", "persisted"))]

\* HtmlDomParser._normalize_row_data(row_data, table_type)
NormalizeRowData(row, table_type) ==
    IF table_type = "columns" THEN NormalizeColumnRow(row)
    ELSE IF table_type = "indexes" THEN NormalizeIndexRow(row)
    ELSE IF table_type = "foreign_keys" THEN NormalizeForeignKeyRow(row)
    ELSE IF table_type = "computed_columns" THEN NormalizeComputedRow(row)
    ELSE None

\* HtmlDomParser._extract_data_from_html_table(table, table_type): the
\* records of the rows after the first, a row of less than two cells and a
\* row without a name giving none
ExtractDataFromHtmlTable(table, table_type) ==
    LET headers == [i \in DOMAIN table.rows[1] |-> Lower(Strip(table.rows[1][i]))]
        Record(r) == NormalizeRowData(RowData(headers, table.rows[r]), table_type)
        Loop[r \in 1..Len(table.rows)] ==
            IF r = 1 THEN <<>>
            ELSE IF Len(table.rows[r]) < 2 \/ Record(r) = None THEN Loop[r - 1]
            ELSE Append(Loop[r - 1], Record(r))
    IN IF table.rows = <<>> \/ table.rows[1] = <<>> THEN <<>> ELSE Loop[Len(table.rows)]

\* the table_data of a heading after the tables of indices from on of the
\* ascending list were processed (html_parser.py 94-111): a list of the
\* section is assigned the records of a table of its category
RECURSIVE ProcessTables(_, _, _, _)
ProcessTables(table_data, nodes, tables, from) ==
    IF from > Len(tables) THEN table_data
    ELSE Once(ClassifyHtmlTable(nodes, tables[from]), LAMBDA table_type :
            Once(IF table_type = "None" THEN <<>> ELSE ExtractDataFromHtmlTable(nodes[tables[from]], table_type), LAMBDA data :
                ProcessTables(IF data = <<>> THEN table_data ELSE [table_data EXCEPT ![table_type] = data], nodes, tables, from + 1)))

\* the indices of a set, ascending
RECURSIVE Ascending(_)
Ascending(set) ==
    IF set = {} THEN <<>>
    ELSE LET least == CHOOSE i \in set : \A j \in set : i <= j
         IN <<least>> \o Ascending(set \ {least})

\* the loop of parse() over the nodes from index h on (html_parser.py 64-117):
\* [result, types], types being the category each table was given
RECURSIVE HtmlParseLoop(_, _, _)
HtmlParseLoop(acc, nodes, h) ==
    IF h > Len(nodes) THEN acc
    ELSE IF nodes[h].name \notin HeadingTags THEN HtmlParseLoop(acc, nodes, h + 1)
    ELSE Once(TableNameSearch(Strip(nodes[h].text)), LAMBDA match :
            IF ~match.matched THEN HtmlParseLoop(acc, nodes, h + 1)
            ELSE Once(Ascending(CollectedTables(nodes, h)), LAMBDA tables :
                    Once(ProcessTables(EmptySection(HtmlName), nodes, tables, 1), LAMBDA table_data :
                        HtmlParseLoop([result |-> IF table_data = EmptySection(HtmlName) THEN acc.result
                                                  ELSE PutSection(acc.result, CleanTableName(match.schema \o <<".">> \o match.table), table_data),
                                       types |-> acc.types \o [i \in DOMAIN tables |-> [node |-> tables[i], table_type |-> ClassifyHtmlTable(nodes, tables[i])]]],
                                      nodes, h + 1))))

\* HtmlDomParser.parse() with BeautifulSoup at hand
HtmlParse(nodes) == HtmlParseLoop([result |-> <<>>, types |-> <<>>], nodes, 1)

---------------------------------------------------------------------------
(* the documents the DOM parser is run on *)

\* the tables of a document: their rows, the first row being the header row
TableRows ==
    {<<<<<<"K", "e", "y">>, <<"N", "a", "m", "e">>, <<"D", "a", "t", "a", " ", "T", "y", "p", "e">>>>, <<<<"P", "K">>, <<"I", "d">>, <<"i", "n", "t">>>>>>,
     <<<<<<"C", "o", "l", "u", "m", "n", " ", "N", "a", "m", "e">>, <<"D", "a", "t", "a", " ", "T", "y", "p", "e">>>>, <<<<"I", "d">>, <<"i", "n", "t">>>>>>,
     <<<<<<"N", "a", "m", "e">>, <<"K", "e", "y", " ", "C", "o", "l", "u", "m", "n", "s">>>>, <<<<"P", "K", "_", "O", "r", "d">>, <<"I", "d">>>>>>,
     <<<<<<"I", "n", "d", "e", "x", " ", "N", "a", "m", "e">>, <<"C", "o", "l", "u", "m", "n", "s">>>>, <<<<"I", "X", "_", "O", "r", "d">>, <<"N", "o">>>>>>,
     <<<<<<"N", "a", "m", "e">>, <<"R", "e", "f", "e", "r", "e", "n", "c", "e", "d", " ", "T", "a", "b", "l", "e">>>>, <<<<"F", "K", "_", "O", "r", "d", "_", "U", "s", "r">>, <<"d", "b", "o", ".", "U", "s", "r">>>>>>,
     <<<<<<"F", "o", "r", "e", "i", "g", "n", " ", "K", "e", "y">>, <<"C", "o", "l", "u", "m", "n">>>>, <<<<"F", "K", "_", "O", "r", "d", "_", "U", "s", "r">>, <<"U", "s", "r", "I", "d">>>>>>,
     <<<<<<"C", "o", "l", "u", "m", "n", " ", "N", "a", "m", "e">>, <<"F", "o", "r", "m", "u", "l", "a">>>>, <<<<"T", "o", "t", "a", "l">>, <<"N", "e", "t", " ", "+", " ", "T", "a", "x">>>>>>,
     <<<<<<"N", "a", "m", "e">>, <<"F", "o", "r", "m", "u", "l", "a">>, <<"C", "o", "m", "p", "u", "t", "e", "d">>>>, <<<<"T", "o", "t", "a", "l">>, <<"N", "e", "t", " ", "+", " ", "T", "a", "x">>, <<"y", "e", "s">>>>>>,
     <<<<<<"C", "o", "m", "p", "u", "t", "e", "d", " ", "C", "o", "l", "u", "m", "n">>, <<"D", "e", "f", "i", "n", "i", "t", "i", "o", "n">>>>, <<<<"T", "o", "t", "a", "l">>, <<"N", "e", "t", " ", "+", " ", "T", "a", "x">>>>>>,
     <<<<<<"C", "o", "l", "u", "m", "n", " ", "N", "a", "m", "e">>, <<"D", "a", "t", "a", " ", "T", "y", "p", "e">>, <<"C", "o", "m", "p", "u", "t", "e", "d">>, <<"F", "o", "r", "m", "u", "l", "a">>>>, <<<<"T", "o", "t", "a", "l">>, <<"i", "n", "t">>, <<"y", "e", "s">>, <<"N", "e", "t", " ", "+", " ", "T", "a", "x">>>>>>,
     <<<<<<"N", "o", "t", "e">>, <<"T", "e", "x", "t">>>>, <<<<"1">>, <<"n", "o", "n", "e">>>>>>}

\* the rest of a Columns table that goes on after a page break
ContinuedColumnsRows == <<<<<<"C", "o", "l", "u", "m", "n", " ", "N", "a", "m", "e">>, <<"D", "a", "t", "a", " ", "T", "y", "p", "e">>>>, <<<<"N", "o">>, <<"i", "n", "t">>>>>>

\* the rest of the table that goes on, with the header row of its first part
ContinuedRows(rows) == <<rows[1], <<<<"N", "o">>, <<"I", "d">>, <<"i", "n", "t">>, <<"x">>>>>>

\* the second table under a heading: none, the rest of a Columns table, or
\* the rest of the first table
SecondTables(rows) == {<<>>, <<TableNode(ContinuedColumnsRows)>>, <<TableNode(ContinuedRows(rows))>>}

\* the headings that name the first table of the document
TableHeadings == {<<"d", "b", "o", ".", "O", "r", "d">>, <<"[", "d", "b", "o", "]", ".", "[", "O", "r", "d", "]">>}

\* what follows the tables of the first heading: nothing, or the heading of
\* another table with its Columns table
NextTables == {<<>>, <<HeadingNode(<<"d", "b", "o", ".", "U", "s", "r">>), TableNode(<<<<<<"C", "o", "l", "u", "m", "n", " ", "N", "a", "m", "e">>, <<"D", "a", "t", "a", " ", "T", "y", "p", "e">>>>, <<<<"L", "o", "g", "i", "n">>, <<"t", "e", "x", "t">>>>>>)>>}

\* a document: a heading that names a table, a paragraph or none, one or two
\* tables, then another table's heading or none
InitDom ==
    /\ pc = "html_ready"
    /\ \E h \in TableHeadings, intro \in {<<>>, <<ParagraphNode(<<"O", "v", "e", "r", "v", "i", "e", "w">>)>>}, rows \in TableRows, next \in NextTables :
          \E second \in SecondTables(rows) :
              soup = <<HeadingNode(h)>> \o intro \o <<TableNode(rows)>> \o second \o next
    /\ table_types = <<>>
    /\ html_result = <<>>
    /\ MergeIdle
    /\ IndexIdle
    /\ ColumnIdle
    /\ TextIdle
    /\ CliIdle
    /\ SectionIdle
    /\ LoadIdle

\* html_data = html_parser.parse() (cli.py 98)
DoHtmlParse ==
    /\ pc = "html_ready"
    /\ \E r \in {HtmlParse(soup)} :
          /\ html_result' = r.result
          /\ table_types' = r.types
    /\ pc' = "html_parsed"
    /\ UNCHANGED soup
    /\ UNCHANGED merge_vars
    /\ UNCHANGED index_vars
    /\ UNCHANGED column_vars
    /\ UNCHANGED text_vars
    /\ UNCHANGED cli_vars
    /\ UNCHANGED section_vars
    /\ UNCHANGED load_vars

NextDom == DoHtmlParse

SpecDom == InitDom /\ [][NextDom]_vars

---------------------------------------------------------------------------
(* claims about the DOM parser *)

\* the text a table is classified by: that of the heading right before it,
\* that of its first row when there is no such heading
ClassifyingText(pos) ==
    IF pos > 1 /\ soup[pos - 1].name \in HeadingTags THEN Lower(Strip(soup[pos - 1].text))
    ELSE FirstRowText(soup[pos])

\* the keyword sets of the four categories
ColumnsKeywords(text) == Contains(text, <<"n", "a", "m", "e">>) /\ Contains(text, <<"d", "a", "t", "a", " ", "t", "y", "p", "e">>)

IndexesKeywords(text) == Contains(text, <<"i", "n", "d", "e", "x">>) \/ Contains(text, <<"k", "e", "y", " ", "c", "o", "l", "u", "m", "n", "s">>)

ForeignKeysKeywords(text) == Contains(text, <<"f", "o", "r", "e", "i", "g", "n", " ", "k", "e", "y">>) \/ Contains(text, <<"r", "e", "f", "e", "r", "e", "n", "c", "e", "d">>)

ComputedColumnsKeywords(text) ==
    Contains(text, <<"c", "o", "m", "p", "u", "t", "e", "d">>) /\ (Contains(text, <<"c", "o", "l", "u", "m", "n">>) \/ Contains(text, <<"f", "o", "r", "m", "u", "l", "a">>))

\* the categories whose keywords the text holds
CategoriesOf(text) ==
    {c \in {"columns", "indexes", "foreign_keys", "computed_columns"} :
        \/ c = "columns" /\ ColumnsKeywords(text)
        \/ c = "indexes" /\ IndexesKeywords(text)
        \/ c = "foreign_keys" /\ ForeignKeysKeywords(text)
        \/ c = "computed_columns" /\ ComputedColumnsKeywords(text)}

\* C26: a table whose classifying text (the heading before it, else its first
\* row) holds a name keyword and "data type" is classified as columns, one
\* whose text holds "computed" with "column" or "formula" as computed columns:
\* a table whose text holds the keywords of one category is given that
\* category, whatever the order the categories are tested in.
C26_ClassifiedByKeywords ==
    pc = "html_parsed" =>
        \A i \in DOMAIN table_types :
            \A c \in CategoriesOf(ClassifyingText(table_types[i].node)) :
                CategoriesOf(ClassifyingText(table_types[i].node)) = {c} => table_types[i].table_type = c

\* what holds of the classification: a table is given a category only if its
\* heading or its first row holds keywords of that category
ClassifiedOnlyByKeywords ==
    pc = "html_parsed" =>
        \A i \in DOMAIN table_types :
            table_types[i].table_type # "None" =>
                table_types[i].table_type \in CategoriesOf(ClassifyingText(table_types[i].node)) \cup CategoriesOf(FirstRowText(soup[table_types[i].node]))

\* the headings of the document that name a table
TableHeadingNodes == {h \in DOMAIN soup : soup[h].name \in HeadingTags /\ TableNameSearch(Strip(soup[h].text)).matched}

\* the table a heading names
NamedTable(h) ==
    LET match == TableNameSearch(Strip(soup[h].text))
    IN match.schema \o <<".">> \o match.table

\* the category parse() got for the table at index node
TypeOfNode(node) == table_types[CHOOSE i \in DOMAIN table_types : table_types[i].node = node].table_type

\* the records of the tables of the ascending list that were classified c,
\* in document order
RECURSIVE RecordsOfCategory(_, _)
RecordsOfCategory(tables, c) ==
    IF tables = <<>> THEN <<>>
    ELSE (IF TypeOfNode(Head(tables)) = c THEN ExtractDataFromHtmlTable(soup[Head(tables)], c) ELSE <<>>)
            \o RecordsOfCategory(Tail(tables), c)

\* the tables under the heading at index h, in document order
TablesUnder(h) == Ascending(CollectedTables(soup, h))

\* C27: for each heading that names a table, every table node before the
\* next heading is collected, and the records of every classified table are
\* in the ParsedSection of the named table: when two tables under one heading
\* are of the same category, the list holds the records of both, in document
\* order.
C27_RecordsOfEveryTable ==
    pc = "html_parsed" =>
        \A h \in TableHeadingNodes :
            /\ \A j \in CollectedTables(soup, h) : \E i \in DOMAIN table_types : table_types[i].node = j
            /\ \A c \in {"columns", "indexes", "foreign_keys", "computed_columns"} :
                  RecordsOfCategory(TablesUnder(h), c) # <<>> =>
                      /\ NamedTable(h) \in DOMAIN html_result
                      /\ html_result[NamedTable(h)][c] = RecordsOfCategory(TablesUnder(h), c)

\* what holds of the tables of a heading: each is collected, and a list of
\* the section holds the records of the last table of its category
RecordsOfLastTable ==
    pc = "html_parsed" =>
        \A h \in TableHeadingNodes :
            /\ \A j \in CollectedTables(soup, h) : \E i \in DOMAIN table_types : table_types[i].node = j
            /\ \A c \in {"columns", "indexes", "foreign_keys", "computed_columns"} :
                  LET of_c == {j \in CollectedTables(soup, h) : TypeOfNode(j) = c /\ ExtractDataFromHtmlTable(soup[j], c) # <<>>}
                  IN of_c # {} =>
                        /\ NamedTable(h) \in DOMAIN html_result
                        /\ html_result[NamedTable(h)][c] = ExtractDataFromHtmlTable(soup[CHOOSE j \in of_c : \A k \in of_c : k <= j], c)

(* C28: what a matched record of the merged list holds. *)

\* field k is null or absent in p and holds a value in s
OnlyInSecondary(p, s, k) ==
    /\ k \in DOMAIN s
    /\ ~IsNone(s[k])
    /\ (k \in DOMAIN p => IsNone(p[k]))

\* the conflict warnings of table t, category cat, about field k of the
\* record named as s is
WarningsAbout(t, cat, s, k) ==
    LET Test(w) == w.key = k /\ Lower(w.item) = Lower(s["name"].v)
    IN SelectSeq(ConflictWarnings(t, cat), Test)

\* the primary record i of table t, category cat, is matched by a secondary record
MatchedPrimary(t, cat, i) ==
    \E j \in DOMAIN SecondaryOf(t)[cat] :
        SameName(PrimaryOf(t)[cat][i], SecondaryOf(t)[cat][j])

\* C28: for a record matched by name in both sources the merged record is
\* an exact copy of the primary record: it has the primary's fields and
\* values and nothing of the secondary, also where a field is null or absent
\* in the primary and holds a value in the secondary; and no warning is
\* recorded about such a field.
C28_MatchedRecordIsPrimaryCopy ==
    pc = "done" =>
        \A t \in BothTables, cat \in CategorySet :
            LET prim == PrimaryOf(t)[cat]
                sec == SecondaryOf(t)[cat]
                merged == result.tables[t][cat]
            IN \A i \in DOMAIN prim :
                  MatchedPrimary(t, cat, i) =>
                     /\ i \in DOMAIN merged
                     /\ merged[i] = prim[i]
                     /\ Cardinality({m \in DOMAIN merged : SameName(merged[m], prim[i])})
                           = Cardinality({m \in DOMAIN prim : SameName(prim[m], prim[i])})
                     /\ \A j \in DOMAIN sec, k \in FieldSet :
                           SameName(prim[i], sec[j]) /\ OnlyInSecondary(prim[i], sec[j], k)
                              /\ (\A m \in DOMAIN prim : SameName(prim[m], prim[i]) => OnlyInSecondary(prim[m], sec[j], k))
                              => WarningsAbout(t, cat, sec[j], k) = <<>>

\* a merge of a record whose type is null in the primary and of one whose
\* type is absent there, both typed in the secondary
C28_Witness ==
    /\ pc = "done"
    /\ TableOrders \in BothTables
    /\ LET prim == PrimaryOf(TableOrders).columns
           sec == SecondaryOf(TableOrders).columns
           merged == result.tables[TableOrders].columns
       IN \E i \in DOMAIN prim, j \in DOMAIN sec :
             /\ SameName(prim[i], sec[j])
             /\ OnlyInSecondary(prim[i], sec[j], "data_type")
             /\ merged[i] = prim[i]
             /\ Len(merged) = Len(prim)

(* C29: the drift statistics a parser holds after its parse() calls. *)

RECURSIVE SumOfCounts(_, _)
SumOfCounts(drift_counts, keys) ==
    IF keys = {} THEN 0
    ELSE LET d == CHOOSE x \in keys : TRUE
         IN drift_counts[d] + SumOfCounts(drift_counts, keys \ {d})

\* the entries of drifted_tables about the table named name
DriftedEntriesOf(name) ==
    {i \in DOMAIN page_drift_stats.drifted_tables : page_drift_stats.drifted_tables[i][1] = name}

\* the entries of the TOC that name the table
TocEntriesOf(name) ==
    {i \in DOMAIN toc_entries.list : toc_entries.list[i].name = name}

\* the three counts of drifted tables agree
DriftCountsAgree ==
    /\ page_drift_stats.tables_with_drift = Len(page_drift_stats.drifted_tables)
    /\ page_drift_stats.tables_with_drift
          = SumOfCounts(page_drift_stats.drift_counts, DOMAIN page_drift_stats.drift_counts)

\* C29: after any sequence of parse() calls on one parser tables_with_drift
\* is the number of entries of drifted_tables and the sum of the values of
\* drift_counts, drifted_tables holds at most one entry for each entry of
\* the TOC, and tables_with_drift is at most total_tables.
C29_DriftStatsConsistent ==
    TextParsed /\ ~toc_entries.is_none =>
        /\ DriftCountsAgree
        /\ \A i \in DOMAIN toc_entries.list :
              Cardinality(DriftedEntriesOf(toc_entries.list[i].name))
                 <= Cardinality(TocEntriesOf(toc_entries.list[i].name))
        /\ page_drift_stats.tables_with_drift <= page_drift_stats.total_tables

\* what does hold: the three counts agree after every call, and after the
\* first call on a new parser there is at most one entry for each entry of
\* the TOC and tables_with_drift is at most total_tables
DriftStatsOfFirstCall ==
    /\ TextParsed => DriftCountsAgree
    /\ pc = "text_parsed" /\ ~toc_entries.is_none =>
          /\ \A i \in DOMAIN toc_entries.list :
                Cardinality(DriftedEntriesOf(toc_entries.list[i].name))
                   <= Cardinality(TocEntriesOf(toc_entries.list[i].name))
          /\ page_drift_stats.tables_with_drift <= page_drift_stats.total_tables

---------------------------------------------------------------------------
(* load_all_json_files of notes/consolidate_and_parse.py: the files are
   loaded by the threads of a pool and the main thread takes the results as
   the futures complete. *)

\* most files of a call
MaxFiles == 3

\* most threads of the pool
MaxWorkers == 2

\* what a file holds: ok is whether open() and json.load() succeed on it,
\* data the dict json.load() gives then
JsonFiles ==
    {[ok |-> TRUE, data |-> [table_name |-> TableOrd, column_section |-> "Id int"]],
     [ok |-> TRUE, data |-> [table_name |-> TableOrd, column_section |-> "Id bigint"]],
     [ok |-> TRUE, data |-> [table_name |-> TableUsr, column_section |-> "Id int"]],
     [ok |-> TRUE, data |-> [column_section |-> "Id int"]],
     [ok |-> TRUE, data |-> <<>>],
     [ok |-> FALSE, data |-> <<>>]}

\* load_json_file: the dict of the file, {} when loading it raises
LoadJsonFile(file) == IF file.ok THEN file.data ELSE <<>>

\* all_data[table_name] = data
PutData(data_map, table_name, data) ==
    [t \in (DOMAIN data_map) \cup {table_name} |-> IF t = table_name THEN data ELSE data_map[t]]

InitLoad ==
    /\ pc = "load_ready"
    /\ \E n \in 1..MaxFiles : json_files \in [1..n -> JsonFiles]
    /\ max_workers \in 1..MaxWorkers
    /\ futures = <<>>
    /\ completed = <<>>
    /\ all_data = <<>>
    /\ success_count = 0
    /\ load_returns = <<>>
    /\ MergeIdle
    /\ IndexIdle
    /\ ColumnIdle
    /\ TextIdle
    /\ CliIdle
    /\ SectionIdle
    /\ DomIdle

LoadUnchanged ==
    /\ UNCHANGED merge_vars
    /\ UNCHANGED index_vars
    /\ UNCHANGED column_vars
    /\ UNCHANGED text_vars
    /\ UNCHANGED cli_vars
    /\ UNCHANGED section_vars
    /\ UNCHANGED dom_vars

\* the call: the locals are set and one future per file is submitted
SubmitAll ==
    /\ pc \in {"load_ready", "loaded"}
    /\ pc' = IF pc = "load_ready" THEN "loading" ELSE "loading_again"
    /\ futures' = [i \in DOMAIN json_files |-> "pending"]
    /\ completed' = <<>>
    /\ all_data' = <<>>
    /\ success_count' = 0
    /\ UNCHANGED <<json_files, max_workers, load_returns>>
    /\ LoadUnchanged

Loading == pc \in {"loading", "loading_again"}

\* a free thread of the pool takes the task submitted first among those
\* waiting
StartLoad(i) ==
    /\ Loading
    /\ futures[i] = "pending"
    /\ \A j \in DOMAIN futures : j < i => futures[j] # "pending"
    /\ Cardinality({j \in DOMAIN futures : futures[j] = "running"}) < max_workers
    /\ futures' = [futures EXCEPT ![i] = "running"]
    /\ UNCHANGED <<pc, json_files, max_workers, completed, all_data, success_count, load_returns>>
    /\ LoadUnchanged

\* load_json_file returns in a thread: the future is finished
FinishLoad(i) ==
    /\ Loading
    /\ futures[i] = "running"
    /\ futures' = [futures EXCEPT ![i] = "finished"]
    /\ completed' = Append(completed, i)
    /\ UNCHANGED <<pc, json_files, max_workers, all_data, success_count, load_returns>>
    /\ LoadUnchanged

\* one turn of the loop over as_completed: the next finished future is
\* yielded and its result stored under its table_name
ProcessCompleted ==
    /\ Loading
    /\ completed # <<>>
    /\ LET i == Head(completed)
           data == LoadJsonFile(json_files[i])
           stored == DOMAIN data # {} /\ "table_name" \in DOMAIN data
       IN /\ all_data' = IF stored THEN PutData(all_data, data["table_name"], data) ELSE all_data
          /\ success_count' = IF stored THEN success_count + 1 ELSE success_count
          /\ futures' = [futures EXCEPT ![i] = "yielded"]
    /\ completed' = Tail(completed)
    /\ UNCHANGED <<pc, json_files, max_workers, load_returns>>
    /\ LoadUnchanged

\* every future was yielded: the pool is shut down and all_data returned
ReturnAllData ==
    /\ Loading
    /\ \A i \in DOMAIN futures : futures[i] = "yielded"
    /\ load_returns' = Append(load_returns, all_data)
    /\ pc' = IF pc = "loading" THEN "loaded" ELSE "loaded_again"
    /\ UNCHANGED <<json_files, max_workers, futures, completed, all_data, success_count>>
    /\ LoadUnchanged

NextLoad ==
    \/ SubmitAll
    \/ \E i \in DOMAIN futures : StartLoad(i)
    \/ \E i \in DOMAIN futures : FinishLoad(i)
    \/ ProcessCompleted
    \/ ReturnAllData

SpecLoad == InitLoad /\ [][NextLoad]_vars

(* C30: whether the mapping load_all_json_files returns depends on the order
   in which the futures complete. *)

\* the files of the call that are stored: loaded, not empty, with a table_name
StoredFiles ==
    {i \in DOMAIN json_files :
        LET data == LoadJsonFile(json_files[i])
        IN DOMAIN data # {} /\ "table_name" \in DOMAIN data}

\* two files of the call hold different data for one table_name
SameNameDifferentData ==
    \E i, j \in StoredFiles :
        /\ json_files[i].data["table_name"] = json_files[j].data["table_name"]
        /\ json_files[i].data # json_files[j].data

\* C30: for a fixed list of files the mapping load_all_json_files returns
\* does not depend on the order in which the futures complete, two files
\* with the same table_name included: two calls on the same files return the
\* same mapping whatever the interleaving of the threads in each.
C30_LoadDeterministic ==
    pc = "loaded_again" => load_returns[2] = load_returns[1]

\* what does hold: the keys are the table names of the stored files, each
\* value is the data of a file of that name, the count is the number of
\* stored files, and the mapping is the same in every interleaving unless
\* two files hold different data for one table_name
LoadDeterministicButSameName ==
    /\ pc \in {"loaded", "loaded_again"} =>
          /\ DOMAIN all_data = {json_files[i].data["table_name"] : i \in StoredFiles}
          /\ \A t \in DOMAIN all_data :
                \E i \in StoredFiles : json_files[i].data = all_data[t] /\ all_data[t]["table_name"] = t
          /\ success_count = Cardinality(StoredFiles)
    /\ pc = "loaded_again" /\ ~SameNameDifferentData => load_returns[2] = load_returns[1]

=============================================================================
